---- MODULE Spec2Model ----
(***************************************************************************)
(* NeonPulse Stocks (server.js as listed in README.md, public/login.js,    *)
(* public/dashboard.js): the price simulator, the connection registry      *)
(* userSockets, the per-tick fan-out with its alerts, and the HTTP         *)
(* handlers that change what the fan-out reads.                            *)
(*                                                                         *)
(* Units.  A price or a `change` string "12.34" is the integer 1234        *)
(* (cents); a changePercent string "-5.26" is the integer -526 (hundredths *)
(* of a percent); a raw random delta (Math.random() * 10 - 5) is an        *)
(* integer number of 1e-5 units, so 2.50005 is 250005.                     *)
(***************************************************************************)
EXTENDS Integers, Sequences, FiniteSets, TLC

(* ------------------------------ bounds -------------------------------- *)
NumTickers == 2
NumEmails == 2
MaxSockets == 2
MaxPending == 2
\* failed login responses one login page is followed through
MaxFailures == 7
\* cooldown timers of one login page pending at a time
MaxCooldowns == 2
\* login requests of one page looked at for an answer
MaxRequests == 2
\* HTTP handlers suspended at a store call at a time
MaxHandlers == 2
\* the ledgers trade requests are followed on: holdings entries, shares of one
\* entry, distance of cash plus shares from the starting balance (cents), __v
MaxHoldings == 3
MaxShares == 2
MaxDrift == 1000
MaxVersion == 3
MaxSubscriptions == 3
TradePriceLo == 9500
\* price windows (cents) the drawn deltas are kept in, per specification
SimPriceHi == 10500
FanPriceLo == 9000
FanPriceHi == 10000

(* ------------------------- program constants -------------------------- *)
TickerNames == <<"GOOG", "TSLA", "AMZN", "META", "NVDA">>
SUPPORTED_STOCKS == SubSeq(TickerNames, 1, NumTickers)
PriceFloor == 1000
SuddenChangeLimit == 500

EmailNames == <<"a@x.io", "b@x.io", "c@x.io", "d@x.io">>
Emails == {EmailNames[i] : i \in 1..NumEmails}
Clients == 1..NumEmails
Tickers == {SUPPORTED_STOCKS[i] : i \in 1..Len(SUPPORTED_STOCKS)}
NoSession == ""

VARIABLES
    stockPrices,      \* ticker -> [price, change, changePercent]
    userSockets,      \* the Map email -> socket id, as its entries in insertion order
    isMongoConnected,
    inMemoryUsers,    \* email -> user record (exists = FALSE: no record)
    mongoUsers,       \* the users collection, same shape
    session,          \* client -> req.session.userEmail, or NoSession
    sockets,          \* socket id -> [client, open]; ids are handed out in order
    pending,          \* store reads in flight (findOne promises), in issue order
    sent,             \* the messages emitted by the last handler, in emit order
    lastTick,         \* what the last tick drew: previous prices and raw deltas
    lastStep,         \* the handler that ran last, and for which entry
    dashboard,        \* client -> the dashboard page it has open (public/dashboard.js)
    loginForm,        \* client -> the login page it has open (public/login.js)
    handlers          \* HTTP handlers suspended at a store call, with what they hold

vars == <<stockPrices, userSockets, isMongoConnected, inMemoryUsers, mongoUsers,
          session, sockets, pending, sent, lastTick, lastStep, dashboard,
          loginForm, handlers>>

(* ----------------------------- arithmetic ----------------------------- *)
Abs(x) == IF x < 0 THEN -x ELSE x
Max(a, b) == IF a >= b THEN a ELSE b

\* Number.prototype.toFixed: n/d rounded to the nearest integer, halves away
\* from zero (d > 0)
ToFixed(n, d) ==
    IF n >= 0 THEN (2 * n + d) \div (2 * d) ELSE -((2 * (-n) + d) \div (2 * d))

(* --------------------------- price simulator -------------------------- *)
\* AdvancePrice without Math.max(10, ...)
AdvancePrice_NoFloor(cur, delta) ==
    [price |-> ToFixed(cur.price * 1000 + delta, 1000),
     change |-> ToFixed(delta, 1000),
     changePercent |-> ToFixed(10 * delta, cur.price)]

\* AdvancePrice with the percent change taken of the new price
AdvancePrice_PercentOfNew(cur, delta) ==
    LET currentPrice == cur.price * 1000
        newPrice == Max(PriceFloor * 1000, currentPrice + delta)
    IN  [price |-> ToFixed(newPrice, 1000),
         change |-> ToFixed(delta, 1000),
         changePercent |-> ToFixed(10 * delta, ToFixed(newPrice, 1000))]

\* one ticker of the setInterval body: cur is the stored record, delta the raw
\* random change in 1e-5 units (1000 of them to the cent).  (change /
\* currentPrice) * 100 in hundredths of a percent is 10 * delta / cur.price.
AdvancePrice(cur, delta) ==
    LET currentPrice == cur.price * 1000
        newPrice == Max(PriceFloor * 1000, currentPrice + delta)
    IN  [price |-> ToFixed(newPrice, 1000),
         change |-> ToFixed(delta, 1000),
         changePercent |-> ToFixed(10 * delta, cur.price)]

(* ------------------------------ registry ------------------------------ *)
HasKey(m, e) == \E i \in 1..Len(m) : m[i].email = e
KeyIndex(m, e) == CHOOSE i \in 1..Len(m) : m[i].email = e
MapGet(m, e) == m[KeyIndex(m, e)].socketId

\* MapSet adding an entry whether or not the key is present, as a list would
MapSet_AlwaysAppend(m, e, s) == Append(m, [email |-> e, socketId |-> s])

\* Map.prototype.set: an existing key keeps its place in the iteration order
MapSet(m, e, s) ==
    IF HasKey(m, e)
    THEN [m EXCEPT ![KeyIndex(m, e)] = [email |-> e, socketId |-> s]]
    ELSE Append(m, [email |-> e, socketId |-> s])

RemoveAt(q, i) == SubSeq(q, 1, i - 1) \o SubSeq(q, i + 1, Len(q))

(* ------------------------------- store -------------------------------- *)
\* portfolio: { cashBalance: 100000, holdings: [] }, the balance in cents
StartPortfolio == [cashBalance |-> 10000000, holdings |-> <<>>]
\* version is the document's __v in the users collection (the in-memory
\* records have none and keep 0)
NoUser == [exists |-> FALSE, subscriptions |-> <<>>, thresholds |-> <<>>,
           portfolio |-> StartPortfolio, version |-> 0]
NewUser == [exists |-> TRUE, subscriptions |-> <<>>, thresholds |-> <<>>,
            portfolio |-> StartPortfolio, version |-> 0]

\* a JavaScript value held in a threshold field
Num(v) == [kind |-> "number", v |-> v]
NaNV == [kind |-> "NaN", v |-> 0]
NullV == [kind |-> "null", v |-> 0]
UndefinedV == [kind |-> "undefined", v |-> 0]
StringV == [kind |-> "string", v |-> 0]
\* typeof x
TypeOf(x) ==
    CASE x.kind \in {"number", "NaN"} -> "number"
      [] x.kind = "null" -> "object"
      [] OTHER -> x.kind

(* ------------------------------ fan-out ------------------------------- *)
\* io.to(s).emit(event, ...) / socket.emit(event, ...).  `for` is the registry
\* key the message was computed for and `origin` the handler that emitted it;
\* neither is on the wire.
StockUpdate(e, s, origin, payload) ==
    [to |-> s, for |-> e, origin |-> origin, event |-> "stockUpdate", ticker |-> "",
     type |-> "", value |-> 0, price |-> 0, payload |-> payload]
PriceAlert(e, s, t, ty, v, p) ==
    [to |-> s, for |-> e, origin |-> "tick", event |-> "priceAlert", ticker |-> t,
     type |-> ty, value |-> v, price |-> p, payload |-> <<>>]

\* thresholds.find(t => t.ticker === ticker): the first entry of the ticker
HasThreshold(th, t) == \E i \in 1..Len(th) : th[i].ticker = t
FindThreshold(th, t) ==
    th[CHOOSE i \in 1..Len(th) :
          th[i].ticker = t /\ \A j \in 1..(i - 1) : th[j].ticker # t]

\* TickerAlerts with price > above in place of price >= above
TickerAlerts_StrictAbove(e, s, user, t, prices) ==
    LET priceInfo == prices[t]
        sudden ==
            IF Abs(priceInfo.changePercent) > SuddenChangeLimit
            THEN <<PriceAlert(e, s, t, "sudden-change", priceInfo.changePercent,
                              priceInfo.price)>>
            ELSE <<>>
        cfg == FindThreshold(user.thresholds, t)
        above ==
            IF HasThreshold(user.thresholds, t) /\ TypeOf(cfg.above) = "number"
               /\ priceInfo.price > cfg.above.v
            THEN <<PriceAlert(e, s, t, "threshold-above", cfg.above.v, priceInfo.price)>>
            ELSE <<>>
        below ==
            IF HasThreshold(user.thresholds, t) /\ TypeOf(cfg.below) = "number"
               /\ priceInfo.price <= cfg.below.v
            THEN <<PriceAlert(e, s, t, "threshold-below", cfg.below.v, priceInfo.price)>>
            ELSE <<>>
    IN  sudden \o above \o below

\* TickerAlerts testing the below bound before the above bound
TickerAlerts_BelowFirst(e, s, user, t, prices) ==
    LET priceInfo == prices[t]
        sudden ==
            IF Abs(priceInfo.changePercent) > SuddenChangeLimit
            THEN <<PriceAlert(e, s, t, "sudden-change", priceInfo.changePercent,
                              priceInfo.price)>>
            ELSE <<>>
        cfg == FindThreshold(user.thresholds, t)
        above ==
            IF HasThreshold(user.thresholds, t) /\ TypeOf(cfg.above) = "number"
               /\ priceInfo.price >= cfg.above.v
            THEN <<PriceAlert(e, s, t, "threshold-above", cfg.above.v, priceInfo.price)>>
            ELSE <<>>
        below ==
            IF HasThreshold(user.thresholds, t) /\ TypeOf(cfg.below) = "number"
               /\ priceInfo.price <= cfg.below.v
            THEN <<PriceAlert(e, s, t, "threshold-below", cfg.below.v, priceInfo.price)>>
            ELSE <<>>
    IN  sudden \o below \o above

\* TickerAlerts raising a threshold alert only when the handler before it
\* raised none of that type for the ticker (edge-triggered)
TickerAlerts_EdgeTriggered(e, s, user, t, prices) ==
    LET priceInfo == prices[t]
        raisedBefore(ty) ==
            \E k \in 1..Len(sent) :
                sent[k].for = e /\ sent[k].ticker = t /\ sent[k].type = ty
        sudden ==
            IF Abs(priceInfo.changePercent) > SuddenChangeLimit
            THEN <<PriceAlert(e, s, t, "sudden-change", priceInfo.changePercent,
                              priceInfo.price)>>
            ELSE <<>>
        cfg == FindThreshold(user.thresholds, t)
        above ==
            IF HasThreshold(user.thresholds, t) /\ TypeOf(cfg.above) = "number"
               /\ priceInfo.price >= cfg.above.v /\ ~raisedBefore("threshold-above")
            THEN <<PriceAlert(e, s, t, "threshold-above", cfg.above.v, priceInfo.price)>>
            ELSE <<>>
        below ==
            IF HasThreshold(user.thresholds, t) /\ TypeOf(cfg.below) = "number"
               /\ priceInfo.price <= cfg.below.v /\ ~raisedBefore("threshold-below")
            THEN <<PriceAlert(e, s, t, "threshold-below", cfg.below.v, priceInfo.price)>>
            ELSE <<>>
    IN  sudden \o above \o below

\* the alerts one subscribed ticker raises, in the order the code emits them
TickerAlerts(e, s, user, t, prices) ==
    LET priceInfo == prices[t]
        sudden ==
            IF Abs(priceInfo.changePercent) > SuddenChangeLimit
            THEN <<PriceAlert(e, s, t, "sudden-change", priceInfo.changePercent,
                              priceInfo.price)>>
            ELSE <<>>
        cfg == FindThreshold(user.thresholds, t)
        above ==
            IF HasThreshold(user.thresholds, t) /\ TypeOf(cfg.above) = "number"
               /\ priceInfo.price >= cfg.above.v
            THEN <<PriceAlert(e, s, t, "threshold-above", cfg.above.v, priceInfo.price)>>
            ELSE <<>>
        below ==
            IF HasThreshold(user.thresholds, t) /\ TypeOf(cfg.below) = "number"
               /\ priceInfo.price <= cfg.below.v
            THEN <<PriceAlert(e, s, t, "threshold-below", cfg.below.v, priceInfo.price)>>
            ELSE <<>>
    IN  sudden \o above \o below

\* the whole price table in place of the subscribed part
SubscribedStocks_All(subs, n, prices) ==
    [i \in 1..Len(SUPPORTED_STOCKS) |->
        [ticker |-> SUPPORTED_STOCKS[i], info |-> prices[SUPPORTED_STOCKS[i]]]]

\* subscribedStocks[ticker] = priceInfo, for the first n subscriptions: an
\* object keeps a key where it was first inserted
RECURSIVE SubscribedStocks(_, _, _)
SubscribedStocks(subs, n, prices) ==
    IF n = 0 THEN <<>>
    ELSE LET rest == SubscribedStocks(subs, n - 1, prices)
             t == subs[n]
         IN  IF t \notin DOMAIN prices \/ \E i \in 1..Len(rest) : rest[i].ticker = t
             THEN rest
             ELSE Append(rest, [ticker |-> t, info |-> prices[t]])

RECURSIVE AllAlerts(_, _, _, _, _)
AllAlerts(e, s, user, n, prices) ==
    IF n = 0 THEN <<>>
    ELSE AllAlerts(e, s, user, n - 1, prices)
         \o (IF user.subscriptions[n] \in DOMAIN prices
             THEN TickerAlerts(e, s, user, user.subscriptions[n], prices)
             ELSE <<>>)

\* FanOutFor emitting the stockUpdate before the alerts
FanOutFor_UpdateFirst(e, s, user, prices) ==
    IF user.exists /\ Len(user.subscriptions) > 0
    THEN <<StockUpdate(e, s, "tick",
                       SubscribedStocks(user.subscriptions,
                                        Len(user.subscriptions), prices))>>
         \o AllAlerts(e, s, user, Len(user.subscriptions), prices)
    ELSE <<>>

\* FanOutFor emitting the stockUpdate inside the subscriptions loop
FanOutFor_EmitInLoop(e, s, user, prices) ==
    IF user.exists /\ Len(user.subscriptions) > 0
    THEN AllAlerts(e, s, user, Len(user.subscriptions), prices)
         \o [i \in 1..Len(user.subscriptions) |->
                StockUpdate(e, s, "tick",
                            SubscribedStocks(user.subscriptions, i, prices))]
    ELSE <<>>

\* FanOutFor without the subscriptions.length > 0 guard
FanOutFor_NoLengthGuard(e, s, user, prices) ==
    IF user.exists
    THEN AllAlerts(e, s, user, Len(user.subscriptions), prices)
         \o <<StockUpdate(e, s, "tick",
                         SubscribedStocks(user.subscriptions,
                                          Len(user.subscriptions), prices))>>
    ELSE <<>>

\* FanOutFor working from the subscriptions and thresholds of a record kept
\* since registration (the first ticker, no thresholds) instead of the record
\* just read
FanOutFor_RecordKeptSinceRegister(e, s, user, prices) ==
    LET kept == [exists |-> TRUE, subscriptions |-> <<SUPPORTED_STOCKS[1]>>,
                 thresholds |-> <<>>]
    IN  IF user.exists
        THEN AllAlerts(e, s, kept, Len(kept.subscriptions), prices)
             \o <<StockUpdate(e, s, "tick",
                             SubscribedStocks(kept.subscriptions,
                                              Len(kept.subscriptions), prices))>>
        ELSE <<>>

\* what the synchronous fan-out emits for one registry entry, from the record
\* inMemoryUsers.get(email) gave it
FanOutFor(e, s, user, prices) ==
    IF user.exists /\ Len(user.subscriptions) > 0
    THEN AllAlerts(e, s, user, Len(user.subscriptions), prices)
         \o <<StockUpdate(e, s, "tick",
                         SubscribedStocks(user.subscriptions,
                                          Len(user.subscriptions), prices))>>
    ELSE <<>>

\* FanOutAll leaving the loop at the first entry whose socket is closed, as if
\* the send to it threw
RECURSIVE FanOutAll_StopAtDead(_, _, _, _)
FanOutAll_StopAtDead(m, n, users, prices) ==
    IF n = 0 THEN <<>>
    ELSE FanOutAll_StopAtDead(m, n - 1, users, prices)
         \o (IF \E j \in 1..n : ~sockets[m[j].socketId].open THEN <<>>
             ELSE FanOutFor(m[n].email, m[n].socketId, users[m[n].email], prices))

\* MongoTickerAlerts with price < below in place of price <= below
MongoTickerAlerts_StrictBelow(e, s, user, t, prices) ==
    LET priceInfo == prices[t]
        changePercent == priceInfo.changePercent
        price == priceInfo.price
        thresholdCfg == FindThreshold(user.thresholds, t)
    IN  (IF Abs(changePercent) > SuddenChangeLimit
         THEN <<PriceAlert(e, s, t, "sudden-change", changePercent, price)>>
         ELSE <<>>)
        \o (IF HasThreshold(user.thresholds, t)
            THEN (IF TypeOf(thresholdCfg.above) = "number" /\ price >= thresholdCfg.above.v
                  THEN <<PriceAlert(e, s, t, "threshold-above", thresholdCfg.above.v, price)>>
                  ELSE <<>>)
                 \o (IF TypeOf(thresholdCfg.below) = "number"
                        /\ price < thresholdCfg.below.v
                     THEN <<PriceAlert(e, s, t, "threshold-below", thresholdCfg.below.v,
                                       price)>>
                     ELSE <<>>)
            ELSE <<>>)

\* the body of user.subscriptions.forEach in the callback of User.findOne, for
\* a ticker that has a price record: the alerts it emits, in emit order
MongoTickerAlerts(e, s, user, t, prices) ==
    LET priceInfo == prices[t]
        changePercent == priceInfo.changePercent
        price == priceInfo.price
        thresholdCfg == FindThreshold(user.thresholds, t)
    IN  (IF Abs(changePercent) > SuddenChangeLimit
         THEN <<PriceAlert(e, s, t, "sudden-change", changePercent, price)>>
         ELSE <<>>)
        \o (IF HasThreshold(user.thresholds, t)
            THEN (IF TypeOf(thresholdCfg.above) = "number" /\ price >= thresholdCfg.above.v
                  THEN <<PriceAlert(e, s, t, "threshold-above", thresholdCfg.above.v, price)>>
                  ELSE <<>>)
                 \o (IF TypeOf(thresholdCfg.below) = "number"
                        /\ price <= thresholdCfg.below.v
                     THEN <<PriceAlert(e, s, t, "threshold-below", thresholdCfg.below.v,
                                       price)>>
                     ELSE <<>>)
            ELSE <<>>)

\* the callback of User.findOne in the tick: the alerts of the first n
\* subscriptions, then (n = all of them) the stockUpdate
RECURSIVE MongoAlerts(_, _, _, _, _)
MongoAlerts(e, s, user, n, prices) ==
    IF n = 0 THEN <<>>
    ELSE LET ticker == user.subscriptions[n]
         IN  MongoAlerts(e, s, user, n - 1, prices)
             \o (IF ticker \in DOMAIN prices
                 THEN MongoTickerAlerts(e, s, user, ticker, prices)
                 ELSE <<>>)

FanOutForMongo(e, s, user, prices) ==
    IF user.exists /\ Len(user.subscriptions) > 0
    THEN Append(MongoAlerts(e, s, user, Len(user.subscriptions), prices),
                StockUpdate(e, s, "tick",
                            SubscribedStocks(user.subscriptions,
                                             Len(user.subscriptions), prices)))
    ELSE <<>>

\* FanOutAll leaving the loop at the first entry that has no user record, as
\* if reading user.subscriptions of undefined threw
RECURSIVE FanOutAll_StopAtMissing(_, _, _, _)
FanOutAll_StopAtMissing(m, n, users, prices) ==
    IF n = 0 THEN <<>>
    ELSE FanOutAll_StopAtMissing(m, n - 1, users, prices)
         \o (IF \E j \in 1..n : ~users[m[j].email].exists THEN <<>>
             ELSE FanOutFor(m[n].email, m[n].socketId, users[m[n].email], prices))

RECURSIVE FanOutAll(_, _, _, _)
FanOutAll(m, n, users, prices) ==
    IF n = 0 THEN <<>>
    ELSE FanOutAll(m, n - 1, users, prices)
         \o FanOutFor(m[n].email, m[n].socketId, users[m[n].email], prices)

\* one findOne per registry entry, issued in iteration order
TickFetches(m) ==
    [i \in 1..Len(m) |->
        [kind |-> "tick", email |-> m[i].email, socketId |-> m[i].socketId]]

(* ----------------------- the handler that ran last -------------------- *)
Step(h, e, s) == [handler |-> h, email |-> e, socketId |-> s]
OtherStep == Step("other", "", 0)
TickDone == Step("tick", "", 0)

(* ------------------------------ the tick ------------------------------ *)
\* TickWith running the fan-out inside the ticker loop, when only the first
\* ticker has its new record
TickWith_FanOutInsideLoop(d) ==
    LET next == [t \in Tickers |-> AdvancePrice(stockPrices[t], d[t])]
        partial == [t \in Tickers |->
                       IF t = SUPPORTED_STOCKS[1] THEN next[t] ELSE stockPrices[t]]
    IN  /\ stockPrices' = next
        /\ lastTick' = [t \in Tickers |-> [prev |-> stockPrices[t].price, delta |-> d[t]]]
        /\ lastStep' = TickDone
        /\ IF isMongoConnected
           THEN /\ Len(pending) + Len(userSockets) <= MaxPending
                /\ pending' = pending \o TickFetches(userSockets)
                /\ sent' = <<>>
           ELSE /\ pending' = pending
                /\ sent' = FanOutAll(userSockets, Len(userSockets), inMemoryUsers, partial)
        /\ UNCHANGED <<handlers, loginForm, dashboard, userSockets, isMongoConnected,
                       inMemoryUsers, mongoUsers, session, sockets>>

\* TickWith not running once a store read has failed, as if the rejection had
\* ended the timer
TickWith_HaltedByFailure(d) ==
    LET next == [t \in Tickers |-> AdvancePrice(stockPrices[t], d[t])]
    IN  /\ lastStep.handler # "tickReadFailed"
        /\ stockPrices' = next
        /\ lastTick' = [t \in Tickers |-> [prev |-> stockPrices[t].price, delta |-> d[t]]]
        /\ lastStep' = TickDone
        /\ IF isMongoConnected
           THEN /\ Len(pending) + Len(userSockets) <= MaxPending
                /\ pending' = pending \o TickFetches(userSockets)
                /\ sent' = <<>>
           ELSE /\ pending' = pending
                /\ sent' = FanOutAll(userSockets, Len(userSockets), inMemoryUsers, next)
        /\ UNCHANGED <<handlers, loginForm, dashboard, userSockets, isMongoConnected,
                       inMemoryUsers, mongoUsers, session, sockets>>

\* TickWith deleting the registry entries it finds without subscriptions
TickWith_DropsIdleEntries(d) ==
    LET next == [t \in Tickers |-> AdvancePrice(stockPrices[t], d[t])]
    IN  /\ stockPrices' = next
        /\ lastTick' = [t \in Tickers |-> [prev |-> stockPrices[t].price, delta |-> d[t]]]
        /\ lastStep' = TickDone
        /\ userSockets' =
              SelectSeq(userSockets,
                        LAMBDA en :
                            Len((IF isMongoConnected THEN mongoUsers
                                 ELSE inMemoryUsers)[en.email].subscriptions) > 0)
        /\ IF isMongoConnected
           THEN /\ Len(pending) + Len(userSockets) <= MaxPending
                /\ pending' = pending \o TickFetches(userSockets)
                /\ sent' = <<>>
           ELSE /\ pending' = pending
                /\ sent' = FanOutAll(userSockets, Len(userSockets), inMemoryUsers, next)
        /\ UNCHANGED <<handlers, loginForm, dashboard, isMongoConnected, inMemoryUsers,
                       mongoUsers, session, sockets>>

\* the setInterval callback with the deltas d drawn for this tick
TickWith(d) ==
    LET next == [t \in Tickers |-> AdvancePrice(stockPrices[t], d[t])]
    IN  /\ stockPrices' = next
        /\ lastTick' = [t \in Tickers |-> [prev |-> stockPrices[t].price, delta |-> d[t]]]
        /\ lastStep' = TickDone
        /\ IF isMongoConnected
           THEN /\ Len(pending) + Len(userSockets) <= MaxPending
                /\ pending' = pending \o TickFetches(userSockets)
                /\ sent' = <<>>
           ELSE /\ pending' = pending
                /\ sent' = FanOutAll(userSockets, Len(userSockets), inMemoryUsers, next)
        /\ UNCHANGED <<handlers, loginForm, dashboard, userSockets, isMongoConnected,
                       inMemoryUsers, mongoUsers, session, sockets>>

\* the deltas drawn from ds, kept to those that leave every price in lo..hi
Tick(ds, lo, hi) ==
    \E d \in [Tickers -> ds] :
        /\ \A t \in Tickers :
              LET p == AdvancePrice(stockPrices[t], d[t]).price IN p >= lo /\ p <= hi
        /\ TickWith(d)

(* --------------------------- store access ----------------------------- *)
ActiveUsers == IF isMongoConnected THEN mongoUsers ELSE inMemoryUsers

\* user.save() / inMemoryUsers.set(user.email, user), on the store the handler read
SaveUser(e, rec) ==
    IF isMongoConnected
    THEN /\ mongoUsers' = [mongoUsers EXCEPT ![e] = rec]
         /\ inMemoryUsers' = inMemoryUsers
    ELSE /\ inMemoryUsers' = [inMemoryUsers EXCEPT ![e] = rec]
         /\ mongoUsers' = mongoUsers

SeqContains(q, x) == \E i \in 1..Len(q) : q[i] = x

\* Array.prototype.filter
RECURSIVE FilterOutTicker(_, _)
FilterOutTicker(q, t) ==
    IF q = <<>> THEN <<>>
    ELSE (IF Head(q) = t THEN <<>> ELSE <<Head(q)>>) \o FilterOutTicker(Tail(q), t)

RECURSIVE FilterOutThreshold(_, _)
FilterOutThreshold(q, t) ==
    IF q = <<>> THEN <<>>
    ELSE (IF Head(q).ticker = t THEN <<>> ELSE <<Head(q)>>)
         \o FilterOutThreshold(Tail(q), t)

(* ----------------------------- login page ----------------------------- *)
\* public/login.js: what one open login page holds.  requests are the emails
\* of the /api/login fetches in flight, in the order sent, disabled is
\* submitBtn.disabled, error whether errorMessage is shown, cooldowns the
\* 60 s timers not yet fired, redirect whether the 100 ms timer that leaves
\* for /dashboard is pending
MAX_ATTEMPTS == 5
NoForm == [open |-> FALSE, attemptCount |-> 0, isSubmitting |-> FALSE,
           disabled |-> FALSE, requests |-> <<>>, error |-> FALSE,
           cooldowns |-> 0, redirect |-> FALSE]
OpenForm == [NoForm EXCEPT !.open = TRUE]

(* --------------------------- dashboard page --------------------------- *)
\* public/dashboard.js: what one open dashboard holds.  subscriptions is
\* currentUser.subscriptions, cards the .stock-card elements of
\* #stocksContainer in document order, noStocksCard whether the container
\* holds the .no-stocks-card, response the fetch answer the page is waiting
\* to handle, timers the setTimeout callbacks of unsubscribeFromStock not yet
\* run (by ticker), toast the type of the last priceAlert shown as a toast
NoResponse == [to |-> "", ticker |-> "", subscriptions |-> <<>>]
NoPage == [loaded |-> FALSE, subscriptions |-> <<>>, cards |-> <<>>,
           noStocksCard |-> FALSE, response |-> NoResponse, timers |-> <<>>,
           toast |-> ""]

\* the figures a card's innerHTML shows for stockData: the price, the
\* magnitudes of change and changePercent, and the positive / negative class
Shown(data) ==
    [price |-> data.price, change |-> Abs(data.change),
     changePercent |-> Abs(data.changePercent), positive |-> data.change >= 0]

\* { price: '0.00', change: '0.00', changePercent: '0.00' }
PlaceholderData == [price |-> 0, change |-> 0, changePercent |-> 0]

\* document.getElementById(`stock-${ticker}`)
HasCard(cards, t) == \E i \in 1..Len(cards) : cards[i].ticker = t
CardOf(cards, t) == cards[CHOOSE i \in 1..Len(cards) : cards[i].ticker = t]

\* createStockCard: drop the no-stocks card, reuse the ticker's card or append
\* a new one, and write the figures into it
CreateStockCard(page, t, data) ==
    LET card == [ticker |-> t, shown |-> Shown(data)]
    IN  [page EXCEPT
            !.noStocksCard = FALSE,
            !.cards = IF HasCard(@, t)
                      THEN [i \in 1..Len(@) |-> IF @[i].ticker = t THEN card ELSE @[i]]
                      ELSE Append(@, card)]

\* currentUser.subscriptions.forEach(ticker => createStockCard(ticker, placeholder))
RECURSIVE PlaceholderCards(_, _, _)
PlaceholderCards(page, subs, n) ==
    IF n = 0 THEN page
    ELSE CreateStockCard(PlaceholderCards(page, subs, n - 1), subs[n], PlaceholderData)

\* loadSubscriptions: with no subscription the container's content is
\* replaced by the no-stocks card; otherwise that card is removed and every
\* subscription gets a card with the placeholder figures
LoadSubscriptions(page) ==
    IF Len(page.subscriptions) > 0
    THEN PlaceholderCards([page EXCEPT !.noStocksCard = FALSE],
                          page.subscriptions, Len(page.subscriptions))
    ELSE [page EXCEPT !.cards = <<>>, !.noStocksCard = TRUE]

\* updateStockPrices(stocks): createStockCard for every key of the payload
RECURSIVE UpdateStockPrices(_, _, _)
UpdateStockPrices(page, stocks, n) ==
    IF n = 0 THEN page
    ELSE CreateStockCard(UpdateStockPrices(page, stocks, n - 1),
                         stocks[n].ticker, stocks[n].info)

(* --------------------------- HTTP handlers ---------------------------- *)
\* POST /api/login with a valid, normalised email e
PostLogin(c, e) ==
    /\ SaveUser(e, IF ActiveUsers[e].exists THEN ActiveUsers[e] ELSE NewUser)
    /\ session' = [session EXCEPT ![c] = e]
    /\ sent' = <<>>
    /\ lastStep' = OtherStep
    /\ UNCHANGED <<handlers, dashboard, stockPrices, userSockets, isMongoConnected,
                   sockets, pending, lastTick>>

\* POST /api/login sent by a client other than a login page
Login(c, e) == PostLogin(c, e) /\ UNCHANGED loginForm

\* POST /api/logout
Logout(c) ==
    /\ session' = [session EXCEPT ![c] = NoSession]
    /\ sent' = <<>>
    /\ lastStep' = OtherStep
    /\ UNCHANGED <<handlers, loginForm, dashboard, stockPrices, userSockets,
                   isMongoConnected, inMemoryUsers, mongoUsers, sockets, pending,
                   lastTick>>

\* the handler of POST /api/subscribe { ticker: t }, answered 200 with
\* { success: true, subscriptions: user.subscriptions }
PostSubscribe(c, t) ==
    /\ session[c] # NoSession
    /\ t \in Tickers
    /\ ActiveUsers[session[c]].exists
    /\ LET user == ActiveUsers[session[c]]
       IN  SaveUser(session[c],
                    IF SeqContains(user.subscriptions, t) THEN user
                    ELSE [user EXCEPT !.subscriptions = Append(@, t)])
    /\ sent' = <<>>
    /\ lastStep' = OtherStep
    /\ UNCHANGED <<handlers, loginForm, stockPrices, userSockets, isMongoConnected,
                   session, sockets, pending, lastTick>>

\* POST /api/subscribe sent by a client other than a dashboard page
Subscribe(c, t) == PostSubscribe(c, t) /\ UNCHANGED dashboard

\* the handler of POST /api/unsubscribe { ticker: t }, answered 200 with
\* { success: true, subscriptions: user.subscriptions }
PostUnsubscribe(c, t) ==
    /\ session[c] # NoSession
    /\ ActiveUsers[session[c]].exists
    /\ LET user == ActiveUsers[session[c]]
       IN  SaveUser(session[c],
                    [user EXCEPT !.subscriptions = FilterOutTicker(@, t)])
    /\ sent' = <<>>
    /\ lastStep' = OtherStep
    /\ UNCHANGED <<handlers, loginForm, stockPrices, userSockets, isMongoConnected,
                   session, sockets, pending, lastTick>>

\* POST /api/unsubscribe sent by a client other than a dashboard page
Unsubscribe(c, t) == PostUnsubscribe(c, t) /\ UNCHANGED dashboard

\* the request body's `above` / `below` after
\* x !== undefined && x !== null ? parseFloat(x) : null
\* (a string that is no number parses to NaN)
ParseFloat(raw) == IF raw.kind = "number" THEN raw ELSE NaNV
NumericOf(raw) == IF raw.kind \in {"undefined", "null"} THEN NullV ELSE ParseFloat(raw)
\* isNaN(x): Number(null) is 0, so isNaN(null) is false
IsNaN(x) == x.kind = "NaN"

\* the alerts handler with the body it was sent
AlertStep(e, t, above, below) ==
    [handler |-> "alerts", email |-> e, socketId |-> 0, ticker |-> t,
     above |-> above, below |-> below]

\* SetAlert keeping a bound of the previous entry where the request gives none
SetAlert_MergesBounds(c, t, above, below) ==
    /\ session[c] # NoSession
    /\ t \in Tickers
    /\ ActiveUsers[session[c]].exists
    /\ LET user == ActiveUsers[session[c]]
           numericAbove == NumericOf(above)
           numericBelow == NumericOf(below)
           kept == FilterOutThreshold(user.thresholds, t)
           old == IF HasThreshold(user.thresholds, t)
                  THEN FindThreshold(user.thresholds, t)
                  ELSE [ticker |-> t, above |-> UndefinedV, below |-> UndefinedV]
           entry == [ticker |-> t,
                     above |-> IF numericAbove.kind = "number" THEN numericAbove
                               ELSE old.above,
                     below |-> IF numericBelow.kind = "number" THEN numericBelow
                               ELSE old.below]
       IN  SaveUser(session[c],
                    [user EXCEPT !.thresholds =
                        IF ~IsNaN(numericAbove) \/ ~IsNaN(numericBelow)
                        THEN Append(kept, entry) ELSE kept])
    /\ sent' = <<>>
    /\ lastStep' = AlertStep(session[c], t, above, below)
    /\ UNCHANGED <<handlers, loginForm, dashboard, stockPrices, userSockets,
                   isMongoConnected, session, sockets, pending, lastTick>>

\* POST /api/alerts { ticker: t, above, below }, answered 200
SetAlert(c, t, above, below) ==
    /\ session[c] # NoSession
    /\ t \in Tickers
    /\ ActiveUsers[session[c]].exists
    /\ LET user == ActiveUsers[session[c]]
           numericAbove == NumericOf(above)
           numericBelow == NumericOf(below)
           kept == FilterOutThreshold(user.thresholds, t)
           entry == [ticker |-> t,
                     above |-> IF IsNaN(numericAbove) THEN UndefinedV ELSE numericAbove,
                     below |-> IF IsNaN(numericBelow) THEN UndefinedV ELSE numericBelow]
       IN  SaveUser(session[c],
                    [user EXCEPT !.thresholds =
                        IF ~IsNaN(numericAbove) \/ ~IsNaN(numericBelow)
                        THEN Append(kept, entry) ELSE kept])
    /\ sent' = <<>>
    /\ lastStep' = AlertStep(session[c], t, above, below)
    /\ UNCHANGED <<handlers, loginForm, dashboard, stockPrices, userSockets,
                   isMongoConnected, session, sockets, pending, lastTick>>

(* -------------------------- socket handlers --------------------------- *)
\* io.on('connection'): client c opens a socket, which gets the next id
Connect(c) ==
    /\ Len(sockets) < MaxSockets
    /\ sockets' = Append(sockets, [client |-> c, open |-> TRUE])
    /\ sent' = <<>>
    /\ lastStep' = OtherStep
    /\ UNCHANGED <<handlers, loginForm, dashboard, stockPrices, userSockets,
                   isMongoConnected, inMemoryUsers, mongoUsers, session, pending,
                   lastTick>>

\* the initial push carrying the whole price table
InitialPush_AllPrices(e, s, user, prices) ==
    IF user.exists /\ Len(user.subscriptions) > 0
    THEN <<StockUpdate(e, s, "register",
                       SubscribedStocks_All(user.subscriptions,
                                            Len(user.subscriptions), prices))>>
    ELSE <<>>

\* the initial push of the register handler once it holds the user record
InitialPush(e, s, user, prices) ==
    IF user.exists /\ Len(user.subscriptions) > 0
    THEN <<StockUpdate(e, s, "register",
                       SubscribedStocks(user.subscriptions,
                                        Len(user.subscriptions), prices))>>
    ELSE <<>>

\* socket.on('register', email) on socket s
Register(s, e) ==
    /\ s \in 1..Len(sockets)
    /\ sockets[s].open
    /\ userSockets' = MapSet(userSockets, e, s)
    /\ lastStep' = Step("register", e, s)
    /\ IF isMongoConnected
       THEN /\ Len(pending) < MaxPending
            /\ pending' = Append(pending,
                                 [kind |-> "register", email |-> e, socketId |-> s])
            /\ sent' = <<>>
       ELSE /\ pending' = pending
            /\ sent' = InitialPush(e, s, inMemoryUsers[e], stockPrices)
    /\ UNCHANGED <<handlers, loginForm, dashboard, stockPrices, isMongoConnected,
                   inMemoryUsers, mongoUsers, session, sockets, lastTick>>

\* DeleteFirstSocket deleting, when no entry holds the socket's id, the first
\* entry whose channel belongs to the same client
DeleteFirstSocket_OfSameClient(m, s) ==
    IF \E i \in 1..Len(m) : m[i].socketId = s
    THEN RemoveAt(m, CHOOSE i \in 1..Len(m) :
                        m[i].socketId = s /\ \A j \in 1..(i - 1) : m[j].socketId # s)
    ELSE IF \E i \in 1..Len(m) : sockets[m[i].socketId].client = sockets[s].client
    THEN RemoveAt(m, CHOOSE i \in 1..Len(m) :
                        /\ sockets[m[i].socketId].client = sockets[s].client
                        /\ \A j \in 1..(i - 1) :
                              sockets[m[j].socketId].client # sockets[s].client)
    ELSE m

\* the loop of the disconnect handler: delete the first entry whose value is
\* the socket's id, then break
DeleteFirstSocket(m, s) ==
    IF \E i \in 1..Len(m) : m[i].socketId = s
    THEN RemoveAt(m, CHOOSE i \in 1..Len(m) :
                        m[i].socketId = s /\ \A j \in 1..(i - 1) : m[j].socketId # s)
    ELSE m

\* socket.on('disconnect') of socket s
Disconnect(s) ==
    /\ s \in 1..Len(sockets)
    /\ sockets[s].open
    /\ sockets' = [sockets EXCEPT ![s].open = FALSE]
    /\ userSockets' = DeleteFirstSocket(userSockets, s)
    /\ sent' = <<>>
    /\ lastStep' = Step("disconnect", "", s)
    /\ UNCHANGED <<handlers, loginForm, dashboard, stockPrices, isMongoConnected,
                   inMemoryUsers, mongoUsers, session, pending, lastTick>>

(* ------------------------ store reads resolving ----------------------- *)
\* FetchResolve looking the channel up in the registry when the read resolves
FetchResolve_LiveLookup(i) ==
    /\ i \in 1..Len(pending)
    /\ LET p == pending[i]
           user == mongoUsers[p.email]
           s == IF HasKey(userSockets, p.email) THEN MapGet(userSockets, p.email)
                ELSE p.socketId
       IN  sent' = IF p.kind = "tick"
                   THEN FanOutForMongo(p.email, s, user, stockPrices)
                   ELSE InitialPush(p.email, p.socketId, user, stockPrices)
    /\ pending' = RemoveAt(pending, i)
    /\ lastStep' = Step(IF pending[i].kind = "tick" THEN "tickRead" ELSE "registerRead",
                        pending[i].email, pending[i].socketId)
    /\ UNCHANGED <<handlers, loginForm, dashboard, stockPrices, userSockets,
                   isMongoConnected, inMemoryUsers, mongoUsers, session, sockets,
                   lastTick>>

\* the i-th findOne in flight resolves with the record the collection holds now
FetchResolve(i) ==
    /\ i \in 1..Len(pending)
    /\ LET p == pending[i]
           user == mongoUsers[p.email]
       IN  sent' = IF p.kind = "tick"
                   THEN FanOutForMongo(p.email, p.socketId, user, stockPrices)
                   ELSE InitialPush(p.email, p.socketId, user, stockPrices)
    /\ pending' = RemoveAt(pending, i)
    /\ lastStep' = Step(IF pending[i].kind = "tick" THEN "tickRead" ELSE "registerRead",
                        pending[i].email, pending[i].socketId)
    /\ UNCHANGED <<handlers, loginForm, dashboard, stockPrices, userSockets,
                   isMongoConnected, inMemoryUsers, mongoUsers, session, sockets,
                   lastTick>>

\* FetchFail giving up the rest of the pass: the reads of the other entries
\* are dropped with the one that failed
FetchFail_AbortsPass(i) ==
    /\ i \in 1..Len(pending)
    /\ pending' = SelectSeq(pending, LAMBDA p : p.kind # pending[i].kind)
    /\ sent' = <<>>
    /\ lastStep' = Step(IF pending[i].kind = "tick" THEN "tickReadFailed"
                        ELSE "registerReadFailed",
                        pending[i].email, pending[i].socketId)
    /\ UNCHANGED <<handlers, loginForm, dashboard, stockPrices, userSockets,
                   isMongoConnected, inMemoryUsers, mongoUsers, session, sockets,
                   lastTick>>

\* the i-th findOne rejects: .catch / catch logs and emits nothing
FetchFail(i) ==
    /\ i \in 1..Len(pending)
    /\ pending' = RemoveAt(pending, i)
    /\ sent' = <<>>
    /\ lastStep' = Step(IF pending[i].kind = "tick" THEN "tickReadFailed"
                        ELSE "registerReadFailed",
                        pending[i].email, pending[i].socketId)
    /\ UNCHANGED <<handlers, loginForm, dashboard, stockPrices, userSockets,
                   isMongoConnected, inMemoryUsers, mongoUsers, session, sockets,
                   lastTick>>

\* mongoose 'connected' / connect().then
MongoConnected ==
    /\ ~isMongoConnected
    /\ isMongoConnected' = TRUE
    /\ sent' = <<>>
    /\ lastStep' = OtherStep
    /\ UNCHANGED <<handlers, loginForm, dashboard, stockPrices, userSockets,
                   inMemoryUsers, mongoUsers, session, sockets, pending, lastTick>>

\* mongoose 'disconnected'
MongoDisconnected ==
    /\ isMongoConnected
    /\ isMongoConnected' = FALSE
    /\ sent' = <<>>
    /\ lastStep' = OtherStep
    /\ UNCHANGED <<handlers, loginForm, dashboard, stockPrices, userSockets,
                   inMemoryUsers, mongoUsers, session, sockets, pending, lastTick>>

(* --------------------------- initial states --------------------------- *)
\* (Math.random() * 1000 + 100).toFixed(2), (Math.random() * 20 - 10).toFixed(2),
\* (Math.random() * 4 - 2).toFixed(2): the values drawn at start-up
InitPrices == {10000}
InitChanges == {0}
InitChangePercents == {0, 200}

InitStockPrices ==
    [Tickers -> [price : InitPrices, change : InitChanges,
                 changePercent : InitChangePercents]]

(* ---------------- the simulator with one dashboard open --------------- *)
\* deltas in 1e-5 units: -5, +2.5 and +2.50005
SimDeltas == {-500000, 250000, 250005}

\* the first client is logged in, subscribed to every ticker in the in-memory
\* store and registered on socket 1
InitSim ==
    /\ stockPrices \in InitStockPrices
    /\ userSockets = <<[email |-> EmailNames[1], socketId |-> 1]>>
    /\ isMongoConnected = FALSE
    /\ inMemoryUsers = [e \in Emails |->
          IF e = EmailNames[1]
          THEN [NewUser EXCEPT !.subscriptions = SUPPORTED_STOCKS]
          ELSE NoUser]
    /\ mongoUsers = [e \in Emails |-> NoUser]
    /\ session = [c \in Clients |-> IF c = 1 THEN EmailNames[1] ELSE NoSession]
    /\ sockets = <<[client |-> 1, open |-> TRUE]>>
    /\ pending = <<>>
    /\ sent = <<>>
    /\ lastTick = [t \in Tickers |-> [prev |-> stockPrices[t].price, delta |-> 0]]
    /\ lastStep = OtherStep
    /\ dashboard = [c \in Clients |-> NoPage]
    /\ loginForm = [c \in Clients |-> NoForm]
    /\ handlers = <<>>

TickSim == Tick(SimDeltas, 0, SimPriceHi)
NextSim == TickSim
SpecSim == InitSim /\ [][NextSim]_vars

(* ======================= claims on the simulator ====================== *)
SuddenAlertSent(t) ==
    \E k \in 1..Len(sent) :
        /\ sent[k].event = "priceAlert"
        /\ sent[k].type = "sudden-change"
        /\ sent[k].ticker = t

\* C3: a tick emits a sudden-change alert for a subscribed ticker iff the
\* absolute percent change of that tick, 100 * delta / previous price, is
\* strictly greater than 5.0, i.e. iff |delta| > 0.05 * previous price (in the
\* units of lastTick: |delta| > 50 * prev).
C3_SuddenChangeIffOver5 ==
    \A t \in Tickers :
        SuddenAlertSent(t) <=> Abs(lastTick[t].delta) > 50 * lastTick[t].prev

\* C10: every ticker's price is at least the floor 10.00, in the initial state
\* and after any number of ticks.
C10_PriceAtLeastFloor ==
    \A t \in Tickers : stockPrices[t].price >= PriceFloor

\* a tick whose raw new price fell below the floor has just been published
C10_FloorApplied ==
    \E t \in Tickers :
        /\ lastTick[t].prev * 1000 + lastTick[t].delta < PriceFloor * 1000
        /\ stockPrices[t].price = PriceFloor

\* C11: after every tick the reported change of every ticker is the new price
\* minus the price the previous tick published, also on a tick where the floor
\* of 10.00 is applied.
C11_ChangeIsPriceDifference ==
    lastStep = TickDone =>
        \A t \in Tickers :
            stockPrices[t].change = stockPrices[t].price - lastTick[t].prev

\* C12: after every tick the reported changePercent of every ticker is
\* 100 * change / previousPrice to two decimals, where change is the change
\* drawn by this tick and previousPrice the price the immediately preceding
\* tick published (the initial price on the first tick).
C12_PercentOfPreviousPrice ==
    lastStep = TickDone =>
        \A t \in Tickers :
            stockPrices[t].changePercent = ToFixed(10 * lastTick[t].delta, lastTick[t].prev)

\* a tick has reported a percent change over a previous price that is not the
\* initial one, and the percent over the initial price would be another
C12_PercentOverMovedPrice ==
    /\ lastStep = TickDone
    /\ \E t \in Tickers :
          /\ lastTick[t].prev \notin InitPrices
          /\ \A p \in InitPrices :
                stockPrices[t].changePercent # ToFixed(10 * lastTick[t].delta, p)

(* ------------------- the registry and its fan-out --------------------- *)
\* deltas in 1e-5 units: -5 and +4.99999
FanDeltas == {-500000, 499999}
TickFan == Tick(FanDeltas, FanPriceLo, FanPriceHi)

\* every client has logged in under its own email and subscribed to the first
\* ticker, once with each store; no socket is open yet
Subscribed == [NewUser EXCEPT !.subscriptions = <<SUPPORTED_STOCKS[1]>>]
Init ==
    /\ stockPrices \in InitStockPrices
    /\ \A t \in Tickers : stockPrices[t].changePercent = 0
    /\ userSockets = <<>>
    /\ isMongoConnected = FALSE
    /\ inMemoryUsers = [e \in Emails |-> Subscribed]
    /\ mongoUsers = [e \in Emails |-> Subscribed]
    /\ session = [c \in Clients |-> EmailNames[c]]
    /\ sockets = <<>>
    /\ pending = <<>>
    /\ sent = <<>>
    /\ lastTick = [t \in Tickers |-> [prev |-> stockPrices[t].price, delta |-> 0]]
    /\ lastStep = OtherStep
    /\ dashboard = [c \in Clients |-> NoPage]
    /\ loginForm = [c \in Clients |-> NoForm]
    /\ handlers = <<>>

\* any open socket may send register with any email
Next ==
    \/ TickFan
    \/ \E c \in Clients : Connect(c)
    \/ \E s \in 1..MaxSockets, e \in Emails : Register(s, e)
    \/ \E s \in 1..MaxSockets : Disconnect(s)
    \/ \E i \in 1..MaxPending : FetchResolve(i)
    \/ \E i \in 1..MaxPending : FetchFail(i)
    \/ MongoConnected
    \/ MongoDisconnected

Spec == Init /\ [][Next]_vars

(* ======================= claims on the registry ======================= *)
\* Each handler is one step and records itself in lastStep, so in a state
\* whose lastStep names a handler, `sent` is what that handler emitted and the
\* registry, the stores and the sockets are as that handler left them.
IsOpen(s) == s \in 1..Len(sockets) /\ sockets[s].open

\* the store reads a tick issued: with the durable store connected, the last
\* Len(userSockets) entries of pending
IssuedByTick ==
    IF isMongoConnected
    THEN {pending[k] : k \in (Len(pending) - Len(userSockets) + 1)..Len(pending)}
    ELSE {}
AddressedByTick ==
    {<<sent[k].for, sent[k].to>> : k \in 1..Len(sent)}
        \cup {<<p.email, p.socketId>> : p \in IssuedByTick}

\* C2: once the disconnect of a channel has been handled, no registry entry
\* maps any identity to that channel (socket ids are never reused, so: every
\* registry entry names an open socket).
C2_NoEntryForDisconnected ==
    \A i \in 1..Len(userSockets) : IsOpen(userSockets[i].socketId)

\* C4: a tick addresses what it sends, and the store reads it issues, only to
\* channels that are still connected and that are the current mapping of the
\* identity; and every registered identity (all are subscribed here) is
\* addressed on its current channel.
C4_TicksAddressLiveCurrentChannel ==
    lastStep = TickDone =>
        /\ \A a \in AddressedByTick :
              IsOpen(a[2]) /\ HasKey(userSockets, a[1]) /\ MapGet(userSockets, a[1]) = a[2]
        /\ \A i \in 1..Len(userSockets) :
              <<userSockets[i].email, userSockets[i].socketId>> \in AddressedByTick

\* C5: a register event creates or replaces the mapping of an email only if
\* that email is the one the client owning the channel is logged in as.
C5_RegisterOnlyOwnIdentity ==
    lastStep.handler = "register" =>
        session[sockets[lastStep.socketId].client] = lastStep.email

(* ------------------- one identity and what it is sent ------------------ *)
\* what the client puts in <<above, below>>: nothing, 95.00, or text that is
\* no number
AlertInputs ==
    {<<UndefinedV, UndefinedV>>, <<Num(9500), UndefinedV>>, <<UndefinedV, Num(9500)>>,
     <<Num(9500), Num(9500)>>, <<StringV, Num(9500)>>, <<StringV, StringV>>}

\* the server right after start-up, with the durable store connected from the
\* start or never; the first client logs in, subscribes, sets thresholds, opens
\* sockets and registers on them
InitFan ==
    /\ stockPrices \in InitStockPrices
    /\ \A t \in Tickers : stockPrices[t].changePercent = 0
    /\ userSockets = <<>>
    /\ isMongoConnected \in BOOLEAN
    /\ inMemoryUsers = [e \in Emails |-> NoUser]
    /\ mongoUsers = [e \in Emails |-> NoUser]
    /\ session = [c \in Clients |-> NoSession]
    /\ sockets = <<>>
    /\ pending = <<>>
    /\ sent = <<>>
    /\ lastTick = [t \in Tickers |-> [prev |-> stockPrices[t].price, delta |-> 0]]
    /\ lastStep = OtherStep
    /\ dashboard = [c \in Clients |-> NoPage]
    /\ loginForm = [c \in Clients |-> NoForm]
    /\ handlers = <<>>

NextFan ==
    \/ TickFan
    \/ Login(1, EmailNames[1])
    \/ \E t \in Tickers : Subscribe(1, t)
    \/ \E t \in Tickers : Unsubscribe(1, t)
    \/ \E t \in Tickers, ab \in AlertInputs : SetAlert(1, t, ab[1], ab[2])
    \/ Connect(1)
    \/ \E s \in 1..MaxSockets : Register(s, EmailNames[1])
    \/ \E i \in 1..MaxPending : FetchResolve(i)
    \/ \E i \in 1..MaxPending : FetchFail(i)

SpecFan == InitFan /\ [][NextFan]_vars

(* ======================== claims on the fan-out ======================= *)
\* the store the handler that ran last read its user records from: a findOne
\* that resolved read the collection, a synchronous handler the Map
ReadUsers ==
    IF lastStep.handler \in {"tickRead", "registerRead"} THEN mongoUsers
    ELSE inMemoryUsers

SeqToSet(q) == {q[i] : i \in 1..Len(q)}
PayloadKeys(m) == {m.payload[i].ticker : i \in 1..Len(m.payload)}
IsTickUpdate(m) == m.event = "stockUpdate" /\ m.origin = "tick"
HasSubscriptions(user) == user.exists /\ Len(user.subscriptions) > 0

\* C1 as stated: among the messages of one tick for one identity the
\* stockUpdate comes first, no priceAlert precedes it.
C1_UpdateBeforeAlerts ==
    \A i, j \in 1..Len(sent) :
        (i < j /\ sent[i].for = sent[j].for /\ sent[j].event = "stockUpdate")
            => sent[i].event # "priceAlert"

\* C1 as the code has it: among the messages of one tick for one identity the
\* stockUpdate comes last, every priceAlert of that tick precedes it.
C1_AlertsBeforeUpdate ==
    \A i, j \in 1..Len(sent) :
        (i < j /\ sent[i].for = sent[j].for /\ sent[i].event = "stockUpdate")
            => sent[j].event # "priceAlert"

\* a handler has just emitted an alert and then the stockUpdate of an identity
C1_AlertThenUpdate ==
    \E i, j \in 1..Len(sent) :
        /\ i < j
        /\ sent[i].for = sent[j].for
        /\ sent[i].event = "priceAlert"
        /\ sent[j].event = "stockUpdate"

TickUpdatesFor(e, s) ==
    Cardinality({k \in 1..Len(sent) :
        IsTickUpdate(sent[k]) /\ sent[k].for = e /\ sent[k].to = s})

\* C6: a tick sends exactly one stockUpdate to the channel of every registered
\* identity whose record is read with non-empty subscriptions: one in the
\* synchronous pass; with the durable store, one read per registry entry and one
\* stockUpdate when that read resolves.
C6_ExactlyOneStockUpdate ==
    /\ (lastStep = TickDone /\ ~isMongoConnected) =>
          \A i \in 1..Len(userSockets) :
              HasSubscriptions(inMemoryUsers[userSockets[i].email])
                  => TickUpdatesFor(userSockets[i].email, userSockets[i].socketId) = 1
    /\ (lastStep = TickDone /\ isMongoConnected) =>
          \A i \in 1..Len(userSockets) :
              Cardinality({k \in (Len(pending) - Len(userSockets) + 1)..Len(pending) :
                  pending[k] = [kind |-> "tick", email |-> userSockets[i].email,
                                socketId |-> userSockets[i].socketId]}) = 1
    /\ (lastStep.handler = "tickRead" /\ HasSubscriptions(mongoUsers[lastStep.email])) =>
          TickUpdatesFor(lastStep.email, lastStep.socketId) = 1

\* a resolved read has just produced the one stockUpdate of an identity
\* subscribed to two tickers
C6_OneUpdateForTwoTickers ==
    /\ lastStep.handler = "tickRead"
    /\ Len(mongoUsers[lastStep.email].subscriptions) = 2
    /\ TickUpdatesFor(lastStep.email, lastStep.socketId) = 1

\* C7: no stockUpdate, on a tick or on register, is sent for an identity whose
\* record is read with empty subscriptions (or does not exist).
C7_NoUpdateForEmptySubscriptions ==
    \A k \in 1..Len(sent) :
        sent[k].event = "stockUpdate" => HasSubscriptions(ReadUsers[sent[k].for])

\* a tick has just run its synchronous pass over a registered identity whose
\* record has no subscriptions, and sent nothing
C7_TickOverEmptySubscriptions ==
    /\ lastStep = TickDone
    /\ ~isMongoConnected
    /\ \E i \in 1..Len(userSockets) :
          /\ inMemoryUsers[userSockets[i].email].exists
          /\ inMemoryUsers[userSockets[i].email].subscriptions = <<>>
    /\ sent = <<>>

\* C8: the keys of every stockUpdate are exactly the subscribed tickers of the
\* record read for it, each once and with the ticker's current price record.
C8_KeysAreSubscriptions ==
    \A k \in 1..Len(sent) :
        sent[k].event = "stockUpdate" =>
            /\ PayloadKeys(sent[k]) = SeqToSet(ReadUsers[sent[k].for].subscriptions)
            /\ Cardinality(PayloadKeys(sent[k])) = Len(sent[k].payload)
            /\ \A i \in 1..Len(sent[k].payload) :
                  sent[k].payload[i].info = stockPrices[sent[k].payload[i].ticker]

\* a tick has sent a stockUpdate with fewer keys than there are tickers
C8_UpdateWithSomeTickers ==
    \E k \in 1..Len(sent) :
        /\ IsTickUpdate(sent[k])
        /\ PayloadKeys(sent[k]) # Tickers
        /\ PayloadKeys(sent[k]) # {}

\* the numeric `above` (`below`) bounds a record holds for ticker t
AboveBounds(user, t) ==
    {user.thresholds[i].above.v : i \in {j \in 1..Len(user.thresholds) :
        user.thresholds[j].ticker = t /\ user.thresholds[j].above.kind = "number"}}
BelowBounds(user, t) ==
    {user.thresholds[i].below.v : i \in {j \in 1..Len(user.thresholds) :
        user.thresholds[j].ticker = t /\ user.thresholds[j].below.kind = "number"}}
AlertsOf(e, t, ty) ==
    {k \in 1..Len(sent) : sent[k].event = "priceAlert" /\ sent[k].for = e
                           /\ sent[k].ticker = t /\ sent[k].type = ty}

\* C9: when a tick's fan-out runs for an identity, then for each subscribed
\* ticker one threshold-above alert is emitted if the record has an above bound
\* and price >= above, and none otherwise; likewise threshold-below with
\* price <= below; each alert carries the bound and the price.
C9_ThresholdAlertsIff ==
    \A e \in Emails :
        (\E k \in 1..Len(sent) : IsTickUpdate(sent[k]) /\ sent[k].for = e) =>
            \A t \in SeqToSet(ReadUsers[e].subscriptions) :
                LET p == stockPrices[t].price
                    up == AlertsOf(e, t, "threshold-above")
                    down == AlertsOf(e, t, "threshold-below")
                IN  /\ Cardinality(up) =
                          IF \E v \in AboveBounds(ReadUsers[e], t) : p >= v THEN 1 ELSE 0
                    /\ Cardinality(down) =
                          IF \E v \in BelowBounds(ReadUsers[e], t) : p <= v THEN 1 ELSE 0
                    /\ \A k \in up :
                          sent[k].value \in AboveBounds(ReadUsers[e], t) /\ sent[k].price = p
                    /\ \A k \in down :
                          sent[k].value \in BelowBounds(ReadUsers[e], t) /\ sent[k].price = p

\* a price equal to both bounds has raised both alerts in the same tick
C9_BothAlertsSameTick ==
    \E i, j \in 1..Len(sent) :
        /\ sent[i].type = "threshold-above"
        /\ sent[j].type = "threshold-below"
        /\ sent[i].ticker = sent[j].ticker
        /\ sent[i].for = sent[j].for
        /\ sent[i].value = sent[i].price
        /\ sent[j].value = sent[j].price

(* ================== claims on ticks that overlap reads ================= *)
\* the store reads of earlier ticks that are still in flight: the tick entries
\* of pending before those the last tick issued
OlderTickReads ==
    {k \in 1..(Len(pending) - Cardinality(IssuedByTick)) : pending[k].kind = "tick"}

\* C13: the fan-out of one tick, with its store reads and their callbacks, is
\* over before the next tick advances the prices: when a tick has run, no read
\* issued by an earlier tick is still in flight (its callback would build the
\* stockUpdate from the prices of the later tick).
C13_NoReadOfEarlierTickInFlight ==
    lastStep = TickDone => OlderTickReads = {}

\* C14: no reader sees a batch of which some tickers carry the values of one
\* tick and others those of the tick before.  After a tick every ticker's
\* record is the one that tick computed; and whatever a fan-out pass, a read
\* callback or the initial push of register emits is built, for every ticker
\* it names, from the records of the batch that is current when it runs.
C14_ReadersSeeOneBatch ==
    /\ lastStep = TickDone =>
          \A t \in Tickers :
              stockPrices[t] =
                  AdvancePrice([price |-> lastTick[t].prev], lastTick[t].delta)
    /\ \A k \in 1..Len(sent) :
          /\ \A i \in 1..Len(sent[k].payload) :
                sent[k].payload[i].info = stockPrices[sent[k].payload[i].ticker]
          /\ sent[k].event = "priceAlert" =>
                /\ sent[k].price = stockPrices[sent[k].ticker].price
                /\ sent[k].type = "sudden-change" =>
                      sent[k].value = stockPrices[sent[k].ticker].changePercent

\* a tick has just sent a stockUpdate that carries every ticker, each with the
\* change this tick drew for it
C14_UpdateOfWholeBatch ==
    /\ lastStep = TickDone
    /\ \E k \in 1..Len(sent) :
          /\ IsTickUpdate(sent[k])
          /\ PayloadKeys(sent[k]) = Tickers
          /\ \A i \in 1..Len(sent[k].payload) :
                sent[k].payload[i].info.change =
                    ToFixed(lastTick[sent[k].payload[i].ticker].delta, 1000)

(* ============ claims on the registry while reads are in flight ========= *)
IsTickRead(p) == p.kind = "tick"
RegistryPairs == {<<userSockets[i].email, userSockets[i].socketId>> : i \in 1..Len(userSockets)}

\* C15: a fan-out pass delivers to the pairs the registry held when the tick
\* iterated it.  A step that changes the registry (register, disconnect)
\* leaves the reads a tick has in flight as they are; a read that resolves
\* sends only to the channel and for the identity its entry was issued with;
\* and a synchronous pass sends only to pairs of the registry it iterated.
C15_PassKeepsItsPairs ==
    [][/\ userSockets' # userSockets =>
             SelectSeq(pending', IsTickRead) = SelectSeq(pending, IsTickRead)
       /\ lastStep'.handler = "tickRead" =>
             \E i \in 1..Len(pending) :
                 /\ IsTickRead(pending[i])
                 /\ pending' = RemoveAt(pending, i)
                 /\ \A k \in 1..Len(sent') :
                       sent'[k].for = pending[i].email /\ sent'[k].to = pending[i].socketId
       /\ (lastStep' = TickDone /\ stockPrices' # stockPrices) =>
             \A k \in 1..Len(sent') : <<sent'[k].for, sent'[k].to>> \in RegistryPairs
      ]_vars

\* a read has resolved and sent to the channel it was issued with, after the
\* identity was registered on another channel or its entry was deleted
C15_SentToChannelOfIssue ==
    /\ lastStep.handler = "tickRead"
    /\ sent # <<>>
    /\ \A k \in 1..Len(sent) : sent[k].to = lastStep.socketId
    /\ <<lastStep.email, lastStep.socketId>> \notin RegistryPairs

(* ===================== claims on reads that fail ======================= *)
TickReadFor(e, s) == [kind |-> "tick", email |-> e, socketId |-> s]

\* C16: when the store read of one identity fails during a tick, nothing is
\* sent for it, the registry and the reads in flight for every other entry are
\* left as they are (they still resolve and send), and the next tick processes
\* the identity again: if it is still registered, a tick that follows the
\* failure issues a read for its entry, or with the store disconnected sends
\* it its stockUpdate (every identity is subscribed here).
C16_FailedReadSkipsOneIdentity ==
    [][/\ lastStep'.handler = "tickReadFailed" =>
             /\ sent' = <<>>
             /\ userSockets' = userSockets
             /\ \E i \in 1..Len(pending) :
                   /\ pending[i] = TickReadFor(lastStep'.email, lastStep'.socketId)
                   /\ pending' = RemoveAt(pending, i)
       /\ (lastStep.handler = "tickReadFailed" /\ lastStep' = TickDone
             /\ HasKey(userSockets, lastStep.email)) =>
             LET e == lastStep.email
                 s == MapGet(userSockets, e)
             IN  IF isMongoConnected
                 THEN \E k \in (Len(pending) + 1)..Len(pending') :
                          pending'[k] = TickReadFor(e, s)
                 ELSE \E k \in 1..Len(sent') :
                          IsTickUpdate(sent'[k]) /\ sent'[k].for = e /\ sent'[k].to = s
      ]_vars

\* the read of one identity has failed while the read the same tick issued
\* for another identity is still in flight
C16_FailedWhileOtherInFlight ==
    /\ lastStep.handler = "tickReadFailed"
    /\ HasKey(userSockets, lastStep.email)
    /\ \E k \in 1..Len(pending) :
          IsTickRead(pending[k]) /\ pending[k].email # lastStep.email

(* ================= claims on sends to closed channels ================== *)
UpdateSentTo(e, s) ==
    \E k \in 1..Len(sent) : IsTickUpdate(sent[k]) /\ sent[k].for = e /\ sent[k].to = s

\* C17: a send to a channel that is closed does not stop the tick and keeps
\* no other identity from its messages: the synchronous pass of a tick sends
\* the stockUpdate of every registry entry, whether or not the sockets of the
\* entries before it are open, and a read that resolves sends the stockUpdate
\* of its entry (every identity is subscribed here).
C17_DeadChannelStopsNothing ==
    /\ (lastStep = TickDone /\ ~isMongoConnected) =>
          \A i \in 1..Len(userSockets) :
              UpdateSentTo(userSockets[i].email, userSockets[i].socketId)
    /\ lastStep.handler = "tickRead" => UpdateSentTo(lastStep.email, lastStep.socketId)

\* a tick has sent to an entry whose socket is closed and then to a later
\* entry whose socket is open
C17_SentPastClosedChannel ==
    /\ lastStep = TickDone
    /\ \E i, j \in 1..Len(userSockets) :
          /\ i < j
          /\ ~IsOpen(userSockets[i].socketId)
          /\ IsOpen(userSockets[j].socketId)
          /\ UpdateSentTo(userSockets[i].email, userSockets[i].socketId)
          /\ UpdateSentTo(userSockets[j].email, userSockets[j].socketId)

(* ------------------- the timer under fair scheduling ------------------- *)
\* the server with the durable store connected; the first client may log in,
\* subscribe to the first ticker, open sockets, register on them and close
\* them, so a tick meets no registry entry, an entry without user record, one
\* without subscriptions, reads whose socket has closed, and reads that fail
InitLive ==
    /\ InitFan
    /\ isMongoConnected
    /\ \A t \in Tickers : stockPrices[t].price = 10000

ReadSettles == \E i \in 1..MaxPending : FetchResolve(i) \/ FetchFail(i)

NextLive ==
    \/ TickFan
    \/ Login(1, EmailNames[1])
    \/ Subscribe(1, SUPPORTED_STOCKS[1])
    \/ Connect(1)
    \/ \E s \in 1..MaxSockets : Register(s, EmailNames[1])
    \/ \E s \in 1..MaxSockets : Disconnect(s)
    \/ ReadSettles

\* setInterval fires every 5 s whatever else is going on, and a findOne in
\* flight is answered or times out
SpecLive ==
    InitLive /\ [][NextLive]_vars /\ SF_vars(TickFan) /\ WF_vars(ReadSettles)

(* ======================== claims on the timer ========================== *)
\* C18: under a fair timer ticks keep occurring: whatever has happened, a
\* tick that advances the prices and runs the fan-out follows again and again,
\* and in particular after a store read of a tick has failed.
C18_TicksKeepOccurring ==
    /\ []<><<TickFan>>_vars
    /\ (lastStep.handler = "tickReadFailed") ~> (lastStep = TickDone)

\* a tick has run over a registry entry that has no user record, while an
\* earlier read is still in flight for a socket that has closed since
C18_TickAmidMissingAndDead ==
    /\ lastStep = TickDone
    /\ \E i \in 1..Len(userSockets) : ~mongoUsers[userSockets[i].email].exists
    /\ \E k \in 1..Len(pending) : IsTickRead(pending[k]) /\ ~IsOpen(pending[k].socketId)

(* ================= claims on the shape of the registry ================= *)
ChannelsOf(m, e) == {m[i].socketId : i \in {j \in 1..Len(m) : m[j].email = e}}

\* C19: the registry holds at most one channel per identity at every instant,
\* and register(e, s) leaves e mapped to s only and the channels of every
\* other identity as they were.
C19_OneChannelPerIdentity ==
    /\ [](\A e \in Emails : Cardinality(ChannelsOf(userSockets, e)) <= 1)
    /\ [](\A i, j \in 1..Len(userSockets) :
             userSockets[i].email = userSockets[j].email => i = j)
    /\ [][lastStep'.handler = "register" =>
             /\ ChannelsOf(userSockets', lastStep'.email) = {lastStep'.socketId}
             /\ \A e \in Emails \ {lastStep'.email} :
                   ChannelsOf(userSockets', e) = ChannelsOf(userSockets, e)
         ]_vars

\* an identity that had registered on socket 1 (its initial read is still in
\* flight) has just registered on socket 2 and is mapped to socket 2 only
C19_RegisteredAgain ==
    /\ lastStep.handler = "register"
    /\ lastStep.socketId = 2
    /\ \E k \in 1..Len(pending) :
          pending[k] = [kind |-> "register", email |-> lastStep.email, socketId |-> 1]
    /\ ChannelsOf(userSockets, lastStep.email) = {2}

(* =================== claims on the order of alerts ===================== *)
AlertRank(ty) ==
    CASE ty = "sudden-change" -> 1
      [] ty = "threshold-above" -> 2
      [] ty = "threshold-below" -> 3
      [] OTHER -> 0

FanOutRanFor(e) == \E k \in 1..Len(sent) : IsTickUpdate(sent[k]) /\ sent[k].for = e

\* the condition of an alert of type ty holds for ticker t of the record read
\* for e, on the published prices
AlertConditionHolds(e, t, ty) ==
    CASE ty = "sudden-change" -> Abs(stockPrices[t].changePercent) > SuddenChangeLimit
      [] ty = "threshold-above" ->
             \E v \in AboveBounds(ReadUsers[e], t) : stockPrices[t].price >= v
      [] ty = "threshold-below" ->
             \E v \in BelowBounds(ReadUsers[e], t) : stockPrices[t].price <= v
      [] OTHER -> FALSE

AlertTypes == {"sudden-change", "threshold-above", "threshold-below"}

\* C21: alerts are not edge-triggered.  When the fan-out of a tick runs for an
\* identity and the condition of an alert holds for one of its subscribed
\* tickers, the alert is emitted, also when the fan-out that ran just before
\* already emitted that alert for that ticker.
C21_AlertsFireAgain ==
    [][\A e \in Emails, t \in Tickers, ty \in AlertTypes :
          (/\ AlertsOf(e, t, ty) # {}
           /\ FanOutRanFor(e)'
           /\ t \in SeqToSet(ReadUsers[e].subscriptions)'
           /\ AlertConditionHolds(e, t, ty)')
              => AlertsOf(e, t, ty)' # {}
      ]_vars

\* a tick has raised a threshold-above alert for a ticker whose price was at
\* or over the bound after the tick before as well (a price that is not the
\* initial one)
C21_AboveOnSecondTick ==
    /\ lastStep = TickDone
    /\ \E k \in 1..Len(sent) :
          /\ sent[k].type = "threshold-above"
          /\ lastTick[sent[k].ticker].prev >= sent[k].value
          /\ lastTick[sent[k].ticker].prev \notin InitPrices
          /\ sent[k].price >= sent[k].value

(* ------------- one registered identity changing its record ------------- *)
\* the first client is logged in and registered on socket 1; when it
\* registered its record held the first ticker and no thresholds.  From here
\* it subscribes, unsubscribes and sets alerts, and never registers again.
InitChange ==
    /\ stockPrices \in InitStockPrices
    /\ \A t \in Tickers : stockPrices[t].changePercent = 0
    /\ userSockets = <<[email |-> EmailNames[1], socketId |-> 1]>>
    /\ isMongoConnected \in BOOLEAN
    /\ inMemoryUsers = [e \in Emails |-> IF e = EmailNames[1] THEN Subscribed ELSE NoUser]
    /\ mongoUsers = [e \in Emails |-> IF e = EmailNames[1] THEN Subscribed ELSE NoUser]
    /\ session = [c \in Clients |-> IF c = 1 THEN EmailNames[1] ELSE NoSession]
    /\ sockets = <<[client |-> 1, open |-> TRUE]>>
    /\ pending = <<>>
    /\ sent = <<>>
    /\ lastTick = [t \in Tickers |-> [prev |-> stockPrices[t].price, delta |-> 0]]
    /\ lastStep = OtherStep
    /\ dashboard = [c \in Clients |-> NoPage]
    /\ loginForm = [c \in Clients |-> NoForm]
    /\ handlers = <<>>

NextChange ==
    \/ TickFan
    \/ \E t \in Tickers : Subscribe(1, t)
    \/ \E t \in Tickers : Unsubscribe(1, t)
    \/ \E t \in Tickers, ab \in AlertInputs : SetAlert(1, t, ab[1], ab[2])
    \/ \E i \in 1..MaxPending : FetchResolve(i)
    \/ \E i \in 1..MaxPending : FetchFail(i)

SpecChange == InitChange /\ [][NextChange]_vars

(* =============== claims on changes between two ticks =================== *)
\* the fan-out of a tick has just run for the registry entry of e
FanOutStepFor(e) ==
    \/ lastStep = TickDone /\ ~isMongoConnected /\ HasKey(userSockets, e)
    \/ lastStep.handler = "tickRead" /\ lastStep.email = e

\* C22: every fan-out works from the subscriptions and thresholds the store
\* holds when it runs.  With no register after the first, the stockUpdate of
\* a tick has exactly the tickers now subscribed (none: no stockUpdate), and
\* the threshold alerts are those of the thresholds now stored.
C22_FanOutReadsCurrentRecord ==
    \A e \in Emails :
        FanOutStepFor(e) =>
            /\ FanOutRanFor(e) <=> HasSubscriptions(ReadUsers[e])
            /\ \A k \in 1..Len(sent) :
                  (IsTickUpdate(sent[k]) /\ sent[k].for = e) =>
                      PayloadKeys(sent[k]) = SeqToSet(ReadUsers[e].subscriptions)
            /\ \A t \in Tickers, ty \in {"threshold-above", "threshold-below"} :
                  AlertsOf(e, t, ty) # {} <=>
                      /\ t \in SeqToSet(ReadUsers[e].subscriptions)
                      /\ AlertConditionHolds(e, t, ty)

\* a tick has sent a stockUpdate with a ticker subscribed after registration
\* and an alert of a threshold set after registration
C22_ChangeReflected ==
    /\ FanOutStepFor(EmailNames[1])
    /\ \E k \in 1..Len(sent) :
          IsTickUpdate(sent[k]) /\ PayloadKeys(sent[k]) # {SUPPORTED_STOCKS[1]}
    /\ \E k \in 1..Len(sent) : sent[k].type \in {"threshold-above", "threshold-below"}

(* ============= claims on the two branches of the fan-out =============== *)
MessagesFor(e) == SelectSeq(sent, LAMBDA m : m.for = e)

\* C23: on the same registry entry, price batch and user record the branch
\* for the durable store and the branch for the in-memory store emit the same
\* messages in the same order: what the synchronous pass has sent for an entry
\* is what the findOne callback computes from the same record and prices, and
\* what a findOne callback has sent is what the synchronous branch computes.
C23_BranchesEmitTheSame ==
    /\ (lastStep = TickDone /\ ~isMongoConnected) =>
          \A i \in 1..Len(userSockets) :
              MessagesFor(userSockets[i].email) =
                  FanOutForMongo(userSockets[i].email, userSockets[i].socketId,
                                 inMemoryUsers[userSockets[i].email], stockPrices)
    /\ lastStep.handler = "tickRead" =>
          sent = FanOutFor(lastStep.email, lastStep.socketId,
                           mongoUsers[lastStep.email], stockPrices)

\* a findOne callback has sent a sudden-change alert, both threshold alerts
\* and the stockUpdate
C23_CallbackSentEveryKind ==
    /\ lastStep.handler = "tickRead"
    /\ \A ty \in AlertTypes : \E k \in 1..Len(sent) : sent[k].type = ty
    /\ \E k \in 1..Len(sent) : IsTickUpdate(sent[k])

(* ================= claims on the stored thresholds ===================== *)
EntriesFor(th, t) == {i \in 1..Len(th) : th[i].ticker = t}

WithThreshold ==
    [Subscribed EXCEPT !.thresholds =
        <<[ticker |-> SUPPORTED_STOCKS[1], above |-> Num(9500), below |-> Num(9500)]>>]

InitMissing ==
    /\ stockPrices \in InitStockPrices
    /\ \A t \in Tickers : stockPrices[t].changePercent = 0
    /\ userSockets = <<[email |-> EmailNames[1], socketId |-> 1],
                       [email |-> EmailNames[2], socketId |-> 2]>>
    /\ isMongoConnected \in BOOLEAN
    /\ \E first \in {NoUser, NewUser, Subscribed} :
          /\ inMemoryUsers = [e \in Emails |->
                IF e = EmailNames[1] THEN first
                ELSE IF e = EmailNames[2] THEN WithThreshold ELSE NoUser]
          /\ mongoUsers = inMemoryUsers
    /\ session = [c \in Clients |->
          IF c = 2 \/ (c = 1 /\ inMemoryUsers[EmailNames[1]].exists)
          THEN EmailNames[c] ELSE NoSession]
    /\ sockets = <<[client |-> 1, open |-> TRUE], [client |-> 2, open |-> TRUE]>>
    /\ pending = <<>>
    /\ sent = <<>>
    /\ lastTick = [t \in Tickers |-> [prev |-> stockPrices[t].price, delta |-> 0]]
    /\ lastStep = OtherStep
    /\ dashboard = [c \in Clients |-> NoPage]
    /\ loginForm = [c \in Clients |-> NoForm]
    /\ handlers = <<>>

NextMissing ==
    \/ TickFan
    \/ \E i \in 1..MaxPending : FetchResolve(i)
    \/ \E i \in 1..MaxPending : FetchFail(i)

SpecMissing == InitMissing /\ [][NextMissing]_vars

(* ================ claims on records with nothing stored ================ *)
\* C25: a registered identity with no record or no subscriptions is sent
\* nothing by a tick, one without thresholds no threshold alert, and the pass
\* goes on: the synchronous pass still sends the stockUpdate of every entry
\* that has subscriptions, and every read still resolves on its own.
C25_NothingStoredNothingSent ==
    /\ \A e \in Emails :
          FanOutStepFor(e) =>
              /\ ~HasSubscriptions(ReadUsers[e]) => MessagesFor(e) = <<>>
              /\ HasSubscriptions(ReadUsers[e]) => FanOutRanFor(e)
              /\ ReadUsers[e].thresholds = <<>> =>
                    \A t \in Tickers :
                        /\ AlertsOf(e, t, "threshold-above") = {}
                        /\ AlertsOf(e, t, "threshold-below") = {}
    /\ (lastStep = TickDone /\ isMongoConnected) =>
          \A i \in 1..Len(userSockets) :
              TickReadFor(userSockets[i].email, userSockets[i].socketId) \in IssuedByTick

\* the synchronous pass of a tick has sent nothing for the first entry, which
\* has no record, and has sent the second entry its stockUpdate and a
\* threshold alert
C25_PassWentOnPastMissing ==
    /\ lastStep = TickDone
    /\ ~isMongoConnected
    /\ ~inMemoryUsers[userSockets[1].email].exists
    /\ MessagesFor(userSockets[1].email) = <<>>
    /\ FanOutRanFor(userSockets[2].email)
    /\ \E t \in Tickers : AlertsOf(userSockets[2].email, t, "threshold-above") # {}

(* ================== claims on what a tick leaves alone ================= *)
\* C26: a tick, with the callbacks of its store reads, leaves the registry and
\* every stored user record (subscriptions, thresholds, portfolio) as they
\* were.
C26_TickChangesNoRecord ==
    [][(\/ lastStep' = TickDone
        \/ lastStep'.handler \in {"tickRead", "tickReadFailed"}) =>
           /\ userSockets' = userSockets
           /\ inMemoryUsers' = inMemoryUsers
           /\ mongoUsers' = mongoUsers
      ]_vars

\* a tick has run over a registered identity that has subscriptions and
\* thresholds, and has sent it messages
C26_TickOverFullRecord ==
    /\ lastStep = TickDone
    /\ sent # <<>>
    /\ \E i \in 1..Len(userSockets) :
          /\ inMemoryUsers[userSockets[i].email].thresholds # <<>>
          /\ inMemoryUsers[userSockets[i].email].portfolio = StartPortfolio

(* ======================= the dashboard as a client ===================== *)
\* a step of the page's own code: which function ran, on which client's
\* page, for which ticker or which delivered message
DashStep(h, c, t, k) == [handler |-> h, client |-> c, ticker |-> t, index |-> k]

\* DOMContentLoaded: GET /api/user answers with the session's record, which
\* becomes currentUser, and loadSubscriptions draws the placeholder cards.
\* The socket the page opens and the register it emits on every connect are
\* Connect and Register.
DashLoad(c) ==
    /\ ~dashboard[c].loaded
    /\ session[c] # NoSession
    /\ ActiveUsers[session[c]].exists
    /\ dashboard' =
          [dashboard EXCEPT ![c] =
              LoadSubscriptions([NoPage EXCEPT
                  !.loaded = TRUE,
                  !.subscriptions = ActiveUsers[session[c]].subscriptions])]
    /\ sent' = <<>>
    /\ lastStep' = DashStep("load", c, "", 0)
    /\ UNCHANGED <<handlers, loginForm, stockPrices, userSockets, isMongoConnected,
                   inMemoryUsers, mongoUsers, session, sockets, pending, lastTick>>

\* subscribeToStock up to its fetch: the select holds t, the page does not
\* list t yet, and the server answers the request
DashSubscribeFetch(c, t) ==
    /\ dashboard[c].loaded
    /\ dashboard[c].response = NoResponse
    /\ dashboard[c].timers = <<>>
    /\ ~SeqContains(dashboard[c].subscriptions, t)
    /\ PostSubscribe(c, t)
    /\ dashboard' =
          [dashboard EXCEPT ![c].response =
              [to |-> "subscribe", ticker |-> t,
               subscriptions |-> (ActiveUsers')[session[c]].subscriptions]]

\* subscribeToStock after its fetch: currentUser.subscriptions =
\* data.subscriptions, loadSubscriptions(), and a register is emitted
DashSubscribeDone(c) ==
    /\ dashboard[c].response.to = "subscribe"
    /\ dashboard' =
          [dashboard EXCEPT ![c] =
              LoadSubscriptions([@ EXCEPT
                  !.subscriptions = dashboard[c].response.subscriptions,
                  !.response = NoResponse])]
    /\ lastStep' = DashStep("subscribed", c, dashboard[c].response.ticker, 0)
    /\ UNCHANGED <<handlers, loginForm, stockPrices, userSockets, isMongoConnected,
                   inMemoryUsers, mongoUsers, session, sockets, pending, sent,
                   lastTick>>

\* unsubscribeFromStock(t) up to its fetch: the button is on the card of t
DashUnsubscribeFetch(c, t) ==
    /\ dashboard[c].loaded
    /\ dashboard[c].response = NoResponse
    /\ dashboard[c].timers = <<>>
    /\ HasCard(dashboard[c].cards, t)
    /\ PostUnsubscribe(c, t)
    /\ dashboard' =
          [dashboard EXCEPT ![c].response =
              [to |-> "unsubscribe", ticker |-> t,
               subscriptions |-> (ActiveUsers')[session[c]].subscriptions]]

\* unsubscribeFromStock(t) after its fetch: currentUser.subscriptions =
\* data.subscriptions; the card of t, if there is one, gets the slideOut
\* animation and the rest is left to a timer of 300 ms
DashUnsubscribeDone(c) ==
    /\ dashboard[c].response.to = "unsubscribe"
    /\ LET t == dashboard[c].response.ticker
           page == [dashboard[c] EXCEPT
                       !.subscriptions = dashboard[c].response.subscriptions,
                       !.response = NoResponse]
       IN  IF HasCard(page.cards, t)
           THEN /\ dashboard' = [dashboard EXCEPT
                                    ![c] = [page EXCEPT !.timers = Append(@, t)]]
                /\ lastStep' = DashStep("unsubscribeAnswered", c, t, 0)
           ELSE /\ dashboard' = [dashboard EXCEPT ![c] = LoadSubscriptions(page)]
                /\ lastStep' = DashStep("unsubscribed", c, t, 0)
    /\ UNCHANGED <<handlers, loginForm, stockPrices, userSockets, isMongoConnected,
                   inMemoryUsers, mongoUsers, session, sockets, pending, sent,
                   lastTick>>

\* the timer of unsubscribeFromStock(t): loadSubscriptions(), the count, and
\* a register is emitted
DashUnsubscribeTimer(c) ==
    /\ dashboard[c].timers # <<>>
    /\ dashboard' =
          [dashboard EXCEPT ![c] =
              LoadSubscriptions([@ EXCEPT !.timers = Tail(@)])]
    /\ lastStep' = DashStep("unsubscribed", c, Head(dashboard[c].timers), 0)
    /\ UNCHANGED <<handlers, loginForm, stockPrices, userSockets, isMongoConnected,
                   inMemoryUsers, mongoUsers, session, sockets, pending, sent,
                   lastTick>>

\* the listeners the page puts on its socket: connect, disconnect,
\* connect_error and priceAlert.  A priceAlert ends in a toast; an event no
\* listener is registered for is dropped.
OnMessage(page, m) ==
    IF m.event = "priceAlert" THEN [page EXCEPT !.toast = m.type] ELSE page

\* message k of the last handler reaches the page of client c on its socket
DashReceive(c, k) ==
    /\ k \in 1..Len(sent)
    /\ dashboard[c].loaded
    /\ sent[k].to \in 1..Len(sockets)
    /\ sockets[sent[k].to].client = c
    /\ sockets[sent[k].to].open
    /\ dashboard' = [dashboard EXCEPT ![c] = OnMessage(@, sent[k])]
    /\ lastStep' = DashStep("delivered", c, sent[k].ticker, k)
    /\ UNCHANGED <<handlers, loginForm, stockPrices, userSockets, isMongoConnected,
                   inMemoryUsers, mongoUsers, session, sockets, pending, sent,
                   lastTick>>

(* --------- specification: one identity on its dashboard page ----------- *)
InitDash ==
    /\ stockPrices \in InitStockPrices
    /\ \A t \in Tickers : stockPrices[t].changePercent = 0
    /\ userSockets = <<>>
    /\ isMongoConnected \in BOOLEAN
    /\ inMemoryUsers = [e \in Emails |-> IF e = EmailNames[1] THEN Subscribed ELSE NoUser]
    /\ mongoUsers = [e \in Emails |-> IF e = EmailNames[1] THEN Subscribed ELSE NoUser]
    /\ session = [c \in Clients |-> IF c = 1 THEN EmailNames[1] ELSE NoSession]
    /\ sockets = <<>>
    /\ pending = <<>>
    /\ sent = <<>>
    /\ lastTick = [t \in Tickers |-> [prev |-> stockPrices[t].price, delta |-> 0]]
    /\ lastStep = OtherStep
    /\ dashboard = [c \in Clients |-> NoPage]
    /\ loginForm = [c \in Clients |-> NoForm]
    /\ handlers = <<>>

NextDash ==
    \/ TickFan
    \/ DashLoad(1)
    \/ Connect(1)
    \/ \E s \in 1..MaxSockets : Register(s, EmailNames[1])
    \/ \E t \in Tickers : DashSubscribeFetch(1, t)
    \/ DashSubscribeDone(1)
    \/ \E t \in Tickers : DashUnsubscribeFetch(1, t)
    \/ DashUnsubscribeDone(1)
    \/ DashUnsubscribeTimer(1)
    \/ \E k \in 1..(2 * NumTickers + 1) : DashReceive(1, k)
    \/ \E i \in 1..MaxPending : FetchResolve(i)
    \/ \E i \in 1..MaxPending : FetchFail(i)

SpecDash == InitDash /\ [][NextDash]_vars

(* ================== claims on the dashboard's display ================== *)
\* the card of ticker t shows the price of the payload entry
ShowsPrice(page, entry) ==
    /\ HasCard(page.cards, entry.ticker)
    /\ CardOf(page.cards, entry.ticker).shown.price = entry.info.price

\* C27: once a stockUpdate has been delivered to the page of a connected
\* client, the page shows, for every ticker of the payload, the payload's
\* price.
C27_DeliveredUpdateIsShown ==
    (lastStep.handler = "delivered" /\ sent[lastStep.index].event = "stockUpdate") =>
        \A i \in 1..Len(sent[lastStep.index].payload) :
            ShowsPrice(dashboard[lastStep.client], sent[lastStep.index].payload[i])

\* C28: once unsubscribeFromStock(T) has run to its end after a successful
\* answer, the page shows no card for T, whether or not other subscriptions
\* remain, and the card of every remaining subscription shows the price it
\* showed before.
C28_UnsubscribedCardIsGone ==
    [][lastStep'.handler = "unsubscribed" =>
          LET before == dashboard[lastStep'.client]
              after == (dashboard')[lastStep'.client]
          IN  /\ ~HasCard(after.cards, lastStep'.ticker)
              /\ \A i \in 1..Len(after.subscriptions) :
                    LET u == after.subscriptions[i]
                    IN  HasCard(before.cards, u) =>
                           /\ HasCard(after.cards, u)
                           /\ CardOf(after.cards, u).shown.price
                                 = CardOf(before.cards, u).shown.price
      ]_vars

(* ================ claims on disconnects and the registry ============== *)
\* C29: the disconnect of a channel that no registry entry maps to (a later
\* register of the identity replaced it, or it never registered) leaves the
\* whole registry as it was, the identity's newer channel included.
C29_StaleDisconnectKeepsRegistry ==
    [][(/\ lastStep'.handler = "disconnect"
        /\ \A i \in 1..Len(userSockets) :
              userSockets[i].socketId # lastStep'.socketId) =>
           userSockets' = userSockets
      ]_vars

\* a channel has just disconnected while every identity is registered on
\* another channel: the disconnect removes at most one entry, so none mapped
\* to the channel when it closed
C29_ClosedBesideNewerChannel ==
    /\ lastStep.handler = "disconnect"
    /\ \A e \in Emails :
          /\ HasKey(userSockets, e)
          /\ MapGet(userSockets, e) # lastStep.socketId
          /\ sockets[MapGet(userSockets, e)].open

(* ------- specification: an identity moving from channel 1 to 2 -------- *)
\* The first identity is registered on channel 1, alone or after the second
\* identity registered on channel 2; both channels are open.  From there
\* channel 2 may register the first identity and may disconnect, channel 1
\* stays connected and sends no register, and ticks run throughout.  An entry
\* of the first identity for channel 2 therefore always stems from a register
\* on channel 2 that followed the one on channel 1.
InitSupersede ==
    /\ stockPrices \in InitStockPrices
    /\ \A t \in Tickers : stockPrices[t].changePercent = 0
    /\ userSockets \in {<<[email |-> EmailNames[1], socketId |-> 1]>>,
                        <<[email |-> EmailNames[2], socketId |-> 2],
                          [email |-> EmailNames[1], socketId |-> 1]>>}
    /\ isMongoConnected \in BOOLEAN
    /\ inMemoryUsers = [e \in Emails |-> Subscribed]
    /\ mongoUsers = [e \in Emails |-> Subscribed]
    /\ session = [c \in Clients |-> EmailNames[c]]
    /\ sockets = <<[client |-> 1, open |-> TRUE], [client |-> 1, open |-> TRUE]>>
    /\ pending = <<>>
    /\ sent = <<>>
    /\ lastTick = [t \in Tickers |-> [prev |-> stockPrices[t].price, delta |-> 0]]
    /\ lastStep = OtherStep
    /\ dashboard = [c \in Clients |-> NoPage]
    /\ loginForm = [c \in Clients |-> NoForm]
    /\ handlers = <<>>

NextSupersede ==
    \/ TickFan
    \/ Register(2, EmailNames[1])
    \/ Disconnect(2)
    \/ \E i \in 1..MaxPending : FetchResolve(i)
    \/ \E i \in 1..MaxPending : FetchFail(i)

SpecSupersede == InitSupersede /\ [][NextSupersede]_vars

\* C30: an identity registered on channel 1 and then on channel 2 while
\* channel 1 stayed connected; once channel 2 has disconnected the registry
\* holds no entry for the identity, and channel 1, which has not sent register
\* again, is sent no message of a tick.  (An entry of the identity for
\* channel 1 means channel 2 never registered it.)
C30_NothingAfterNewerChannelLeft ==
    (/\ ~sockets[2].open
     /\ ~(HasKey(userSockets, EmailNames[1]) /\ MapGet(userSockets, EmailNames[1]) = 1)) =>
        /\ ~HasKey(userSockets, EmailNames[1])
        /\ \A k \in 1..Len(sent) : sent[k].origin = "tick" => sent[k].to # 1

(* ======================== the login page as a client =================== *)
\* a step of the login page's code on client c's page
FormStep(h, c) == [handler |-> h, client |-> c]

\* OnSubmit without the isSubmitting test
OnSubmit_NoPendingTest(form, e) ==
    IF e = "" THEN [form EXCEPT !.error = TRUE]
    ELSE [form EXCEPT !.error = FALSE, !.isSubmitting = TRUE, !.disabled = TRUE,
                      !.requests = Append(@, e)]

\* the submit listener up to its fetch, for the input value e ("" stands for
\* a value the client-side validation turns down).  While a request is
\* pending the listener returns at once.
OnSubmit(form, e) ==
    IF form.isSubmitting THEN form
    ELSE IF e = "" THEN [form EXCEPT !.error = TRUE]
    ELSE [form EXCEPT !.error = FALSE, !.isSubmitting = TRUE, !.disabled = TRUE,
                      !.requests = Append(@, e)]

\* a submit event reaches the form of client c
FormSubmit(c, e) ==
    /\ loginForm[c].open
    /\ loginForm' = [loginForm EXCEPT ![c] = OnSubmit(@, e)]
    /\ lastStep' = FormStep(IF loginForm[c].isSubmitting THEN "submitIgnored"
                            ELSE IF e = "" THEN "submitInvalid" ELSE "submitSent", c)
    /\ UNCHANGED <<handlers, stockPrices, userSockets, isMongoConnected, inMemoryUsers,
                   mongoUsers, session, sockets, pending, sent, lastTick, dashboard>>

\* the finally block of the submit listener
SubmitFinally(form) ==
    [form EXCEPT !.isSubmitting = FALSE, !.disabled = FALSE]

\* request i of the form is settled and leaves the ones in flight
Settled(form, i) == [form EXCEPT !.requests = RemoveAt(@, i)]

\* the request is answered 200 { success: true }: the input is cleared and
\* the page leaves for /dashboard 100 ms later
FormAnswerOk(c, i) ==
    /\ loginForm[c].open
    /\ i \in 1..Len(loginForm[c].requests)
    /\ PostLogin(c, loginForm[c].requests[i])
    /\ loginForm' = [loginForm EXCEPT ![c] =
                        SubmitFinally([Settled(@, i) EXCEPT !.redirect = TRUE])]

\* the else branch of the listener: the attempt is counted, and from
\* MAX_ATTEMPTS on the button is disabled and a 60 s timer is started
CountFailure(form) ==
    LET counted == [form EXCEPT !.attemptCount = @ + 1, !.error = TRUE]
    IN  IF counted.attemptCount >= MAX_ATTEMPTS
        THEN [counted EXCEPT !.disabled = TRUE, !.cooldowns = @ + 1]
        ELSE counted

\* the request is answered with an error status (validation, rate limit,
\* store failure): the server changes nothing
FormAnswerFailed(c, i) ==
    /\ loginForm[c].open
    /\ i \in 1..Len(loginForm[c].requests)
    /\ loginForm[c].attemptCount < MaxFailures
    /\ loginForm[c].cooldowns < MaxCooldowns
    /\ loginForm' = [loginForm EXCEPT ![c] = SubmitFinally(CountFailure(Settled(@, i)))]
    /\ lastStep' = FormStep("loginFailed", c)
    /\ UNCHANGED <<handlers, stockPrices, userSockets, isMongoConnected, inMemoryUsers,
                   mongoUsers, session, sockets, pending, sent, lastTick, dashboard>>

\* the fetch rejects: the catch block shows the network error
FormNetworkError(c, i) ==
    /\ loginForm[c].open
    /\ i \in 1..Len(loginForm[c].requests)
    /\ loginForm' = [loginForm EXCEPT ![c] =
                        SubmitFinally([Settled(@, i) EXCEPT !.error = TRUE])]
    /\ lastStep' = FormStep("networkError", c)
    /\ UNCHANGED <<handlers, stockPrices, userSockets, isMongoConnected, inMemoryUsers,
                   mongoUsers, session, sockets, pending, sent, lastTick, dashboard>>

\* a 60 s timer of the failure branch fires
FormCooldown(c) ==
    /\ loginForm[c].open
    /\ loginForm[c].cooldowns > 0
    /\ loginForm' = [loginForm EXCEPT ![c] =
                        [@ EXCEPT !.disabled = FALSE, !.attemptCount = 0,
                                  !.cooldowns = @ - 1]]
    /\ lastStep' = FormStep("cooldown", c)
    /\ UNCHANGED <<handlers, stockPrices, userSockets, isMongoConnected, inMemoryUsers,
                   mongoUsers, session, sockets, pending, sent, lastTick, dashboard>>

\* the 100 ms timer of the success branch fires: window.location.href =
\* '/dashboard' unloads the login page, its timers and its pending fetch
FormRedirect(c) ==
    /\ loginForm[c].open
    /\ loginForm[c].redirect
    /\ loginForm' = [loginForm EXCEPT ![c] = NoForm]
    /\ lastStep' = FormStep("redirect", c)
    /\ UNCHANGED <<handlers, stockPrices, userSockets, isMongoConnected, inMemoryUsers,
                   mongoUsers, session, sockets, pending, sent, lastTick, dashboard>>

\* the login page is opened (GET /)
FormOpen(c) ==
    /\ ~loginForm[c].open
    /\ loginForm' = [loginForm EXCEPT ![c] = OpenForm]
    /\ lastStep' = FormStep("open", c)
    /\ UNCHANGED <<handlers, stockPrices, userSockets, isMongoConnected, inMemoryUsers,
                   mongoUsers, session, sockets, pending, sent, lastTick, dashboard>>

(* ------------- specification: one client on the login page ------------- *)
InitLogin ==
    /\ stockPrices \in InitStockPrices
    /\ \A t \in Tickers : stockPrices[t].changePercent = 0
    /\ userSockets = <<>>
    /\ isMongoConnected \in BOOLEAN
    /\ inMemoryUsers = [e \in Emails |-> NoUser]
    /\ mongoUsers = [e \in Emails |-> NoUser]
    /\ session = [c \in Clients |-> NoSession]
    /\ sockets = <<>>
    /\ pending = <<>>
    /\ sent = <<>>
    /\ lastTick = [t \in Tickers |-> [prev |-> stockPrices[t].price, delta |-> 0]]
    /\ lastStep = OtherStep
    /\ dashboard = [c \in Clients |-> NoPage]
    /\ loginForm = [c \in Clients |-> NoForm]
    /\ handlers = <<>>

NextLogin ==
    \/ FormOpen(1)
    \/ \E e \in Emails \cup {""} : FormSubmit(1, e)
    \/ \E i \in 1..MaxRequests : FormAnswerOk(1, i)
    \/ \E i \in 1..MaxRequests : FormAnswerFailed(1, i)
    \/ \E i \in 1..MaxRequests : FormNetworkError(1, i)
    \/ FormCooldown(1)
    \/ FormRedirect(1)

SpecLogin == InitLogin /\ [][NextLogin]_vars

(* ====================== claims on the login page ======================= *)
\* C31: from the 5th failed login response on, while the 60 s cooldown timer
\* has not fired, the submit button is disabled and no login request is in
\* flight; when the timer fires the button is enabled and the attempt counter
\* is 0.
C31_DisabledUntilCooldown ==
    /\ [](\A c \in Clients :
             (loginForm[c].open /\ loginForm[c].cooldowns > 0) =>
                 /\ loginForm[c].disabled
                 /\ loginForm[c].requests = <<>>)
    /\ [][\A c \in Clients :
             (loginForm[c].open /\ lastStep' = FormStep("cooldown", c)) =>
                 /\ ~(loginForm')[c].disabled
                 /\ (loginForm')[c].attemptCount = 0
        ]_vars

\* the server's side of a step: everything but the two pages
ServerVars == <<stockPrices, userSockets, isMongoConnected, inMemoryUsers, mongoUsers,
                session, sockets, pending>>

\* C32: the login form has at most one /api/login request in flight; a
\* submit event that arrives while one is pending sends nothing and changes
\* no state; and once the request is settled (success, failure or network
\* error) the form accepts a submit again.
C32_OneLoginInFlight ==
    /\ [](\A c \in Clients :
             /\ Len(loginForm[c].requests) <= 1
             /\ (loginForm[c].open /\ loginForm[c].requests = <<>>) =>
                    ~loginForm[c].isSubmitting)
    /\ [][\A c \in Clients :
             (/\ lastStep' \in {FormStep(h, c) :
                                   h \in {"submitIgnored", "submitInvalid", "submitSent"}}
              /\ loginForm[c].requests # <<>>) =>
                 /\ loginForm' = loginForm
                 /\ ServerVars' = ServerVars
        ]_vars

\* a submit event has just arrived while a request was pending
C32_SubmitWhilePending ==
    /\ lastStep = FormStep("submitIgnored", 1)
    /\ Len(loginForm[1].requests) = 1
    /\ loginForm[1].attemptCount > 0

(* ============================ POST /api/trade ========================== *)
\* portfolio.holdings.find(h => h.ticker === ticker): the first entry
HasHolding(holdings, t) == \E i \in 1..Len(holdings) : holdings[i].ticker = t
HoldingIndex(holdings, t) ==
    CHOOSE i \in 1..Len(holdings) :
        holdings[i].ticker = t /\ \A j \in 1..(i - 1) : holdings[j].ticker # t

\* portfolio.holdings.filter(h => h.ticker !== ticker)
RECURSIVE FilterOutHolding(_, _)
FilterOutHolding(q, t) ==
    IF q = <<>> THEN <<>>
    ELSE (IF Head(q).ticker = t THEN <<>> ELSE <<Head(q)>>)
         \o FilterOutHolding(Tail(q), t)

\* parseInt(quantity, 10) of the request body's quantity
ParseInt(raw) == IF raw.kind = "number" THEN raw ELSE NaNV

\* the checks without the one of the quantity
TradeValidation_NoQuantityTest(t, side, raw) ==
    IF t \notin Tickers THEN "Unsupported stock ticker"
    ELSE IF side \notin {"buy", "sell"} THEN "Invalid trade side"
    ELSE ""

\* the checks made before the store is touched: the error they answer 400
\* with, or "" when the request passes them
TradeValidation(t, side, raw) ==
    IF t \notin Tickers THEN "Unsupported stock ticker"
    ELSE IF side \notin {"buy", "sell"} THEN "Invalid trade side"
    ELSE IF ParseInt(raw).kind # "number" \/ ParseInt(raw).v <= 0
    THEN "Quantity must be a positive integer"
    ELSE ""

\* the buy / sell arithmetic with no test of the cash balance
ApplyTrade_NoBalanceTest(portfolio, t, side, qty, price) ==
    LET tradeValue == price * qty
        has == HasHolding(portfolio.holdings, t)
        i == IF has THEN HoldingIndex(portfolio.holdings, t) ELSE 0
        rejected(error) == [status |-> 400, error |-> error, portfolio |-> portfolio,
                            change |-> "none", at |-> 0]
    IN  IF side = "buy"
        THEN IF FALSE
             THEN rejected("Insufficient virtual balance")
             ELSE IF ~has
             THEN [status |-> 200, error |-> "",
                   portfolio |->
                       [cashBalance |-> portfolio.cashBalance - tradeValue,
                        holdings |-> Append(portfolio.holdings,
                                            [ticker |-> t, quantity |-> qty])],
                   change |-> "push", at |-> Len(portfolio.holdings) + 1]
             ELSE LET holding == portfolio.holdings[i]
                      totalQty == holding.quantity + qty
                  IN  [status |-> 200, error |-> "",
                       portfolio |->
                           [cashBalance |-> portfolio.cashBalance - tradeValue,
                            holdings |-> [portfolio.holdings EXCEPT
                                             ![i] = [ticker |-> t, quantity |-> totalQty]]],
                       change |-> "element", at |-> i]
        ELSE IF ~has \/ portfolio.holdings[i].quantity < qty
             THEN rejected("Not enough shares to sell")
             ELSE LET left == portfolio.holdings[i].quantity - qty
                  IN  [status |-> 200, error |-> "",
                       portfolio |->
                           [cashBalance |-> portfolio.cashBalance + tradeValue,
                            holdings |->
                                IF left = 0 THEN FilterOutHolding(portfolio.holdings, t)
                                ELSE [portfolio.holdings EXCEPT ![i].quantity = left]],
                       change |-> IF left = 0 THEN "array" ELSE "element", at |-> i]

\* the buy / sell arithmetic on the portfolio the handler holds, the price in
\* cents.  A holding's avgPrice, which no test of the handler reads, is left
\* out of the entries.  change is what the handler
\* did to holdings: "push" (a new entry), "element" (fields of entry `at`),
\* "array" (the array replaced by the filtered one) or "none" (rejected).
ApplyTrade(portfolio, t, side, qty, price) ==
    LET tradeValue == price * qty
        has == HasHolding(portfolio.holdings, t)
        i == IF has THEN HoldingIndex(portfolio.holdings, t) ELSE 0
        rejected(error) == [status |-> 400, error |-> error, portfolio |-> portfolio,
                            change |-> "none", at |-> 0]
    IN  IF side = "buy"
        THEN IF portfolio.cashBalance < tradeValue
             THEN rejected("Insufficient virtual balance")
             ELSE IF ~has
             THEN [status |-> 200, error |-> "",
                   portfolio |->
                       [cashBalance |-> portfolio.cashBalance - tradeValue,
                        holdings |-> Append(portfolio.holdings,
                                            [ticker |-> t, quantity |-> qty])],
                   change |-> "push", at |-> Len(portfolio.holdings) + 1]
             ELSE LET holding == portfolio.holdings[i]
                      totalQty == holding.quantity + qty
                  IN  [status |-> 200, error |-> "",
                       portfolio |->
                           [cashBalance |-> portfolio.cashBalance - tradeValue,
                            holdings |-> [portfolio.holdings EXCEPT
                                             ![i] = [ticker |-> t, quantity |-> totalQty]]],
                       change |-> "element", at |-> i]
        ELSE IF ~has \/ portfolio.holdings[i].quantity < qty
             THEN rejected("Not enough shares to sell")
             ELSE LET left == portfolio.holdings[i].quantity - qty
                  IN  [status |-> 200, error |-> "",
                       portfolio |->
                           [cashBalance |-> portfolio.cashBalance + tradeValue,
                            holdings |->
                                IF left = 0 THEN FilterOutHolding(portfolio.holdings, t)
                                ELSE [portfolio.holdings EXCEPT ![i].quantity = left]],
                       change |-> IF left = 0 THEN "array" ELSE "element", at |-> i]

\* the answer of a trade request, as the last step: the status and the
\* error of the body ("" for the portfolio)
TradeStep(e, status, error) ==
    [handler |-> "trade", email |-> e, status |-> status, error |-> error]

\* the shares of all entries together
RECURSIVE SharesHeld(_)
SharesHeld(holdings) ==
    IF holdings = <<>> THEN 0 ELSE Head(holdings).quantity + SharesHeld(Tail(holdings))

\* the cash balance plus the shares held at the price the simulator starts
\* from
NominalWorth(portfolio) ==
    portfolio.cashBalance + SharesHeld(portfolio.holdings) * FanPriceHi

\* the identity trades the first ticker, and asks for one that is not
\* supported
TradeTickers == {SUPPORTED_STOCKS[1], "XXXX"}

\* what the user may ask for while the ledger is within the bounds followed
WithinBounds(user) ==
    /\ Len(user.portfolio.holdings) <= MaxHoldings
    /\ \A i \in 1..Len(user.portfolio.holdings) :
          user.portfolio.holdings[i].ticker \in TradeTickers
              => user.portfolio.holdings[i].quantity <= MaxShares
    /\ Abs(NominalWorth(user.portfolio) - StartPortfolio.cashBalance) <= MaxDrift
    /\ user.version < MaxVersion

\* POST /api/trade { ticker: t, side, quantity: raw } from client c, up to
\* the answer or, with the durable store connected, up to User.findOne
TradeRequest(c, t, side, raw) ==
    LET e == session[c]
        invalid == TradeValidation(t, side, raw)
        price == stockPrices[t].price
    IN  /\ sent' = <<>>
        /\ IF e = NoSession
           THEN /\ lastStep' = TradeStep(e, 401, "Not authenticated")
                /\ UNCHANGED <<inMemoryUsers, mongoUsers, handlers>>
           ELSE IF invalid # ""
           THEN /\ lastStep' = TradeStep(e, 400, invalid)
                /\ UNCHANGED <<inMemoryUsers, mongoUsers, handlers>>
           ELSE IF isMongoConnected
           THEN /\ Len(handlers) < MaxHandlers
                /\ WithinBounds(mongoUsers[e])
                /\ handlers' = Append(handlers,
                                      [kind |-> "trade", phase |-> "read", email |-> e,
                                       ticker |-> t, side |-> side,
                                       qty |-> ParseInt(raw).v, price |-> price,
                                       doc |-> NoUser, change |-> "none", at |-> 0])
                /\ lastStep' = Step("tradeReceived", e, 0)
                /\ UNCHANGED <<inMemoryUsers, mongoUsers>>
           ELSE IF ~inMemoryUsers[e].exists
           THEN /\ lastStep' = TradeStep(e, 404, "User not found")
                /\ UNCHANGED <<inMemoryUsers, mongoUsers, handlers>>
           ELSE LET done == ApplyTrade(inMemoryUsers[e].portfolio, t, side,
                                       ParseInt(raw).v, price)
                IN  /\ WithinBounds(inMemoryUsers[e])
                    /\ inMemoryUsers' =
                          [inMemoryUsers EXCEPT ![e].portfolio = done.portfolio]
                    /\ lastStep' = TradeStep(e, done.status, done.error)
                    /\ UNCHANGED <<mongoUsers, handlers>>
        /\ UNCHANGED <<stockPrices, userSockets, isMongoConnected, session, sockets,
                       pending, lastTick, dashboard, loginForm>>

\* User.findOne of a trade resolves: the handler works on the document it
\* was given and either answers or calls user.save()
TradeRead(i) ==
    /\ i \in 1..Len(handlers)
    /\ handlers[i].kind = "trade"
    /\ handlers[i].phase = "read"
    /\ LET h == handlers[i]
           user == mongoUsers[h.email]
           done == ApplyTrade(user.portfolio, h.ticker, h.side, h.qty, h.price)
       IN  IF ~user.exists \/ done.status # 200
           THEN /\ handlers' = RemoveAt(handlers, i)
                /\ lastStep' = IF user.exists
                                THEN TradeStep(h.email, done.status, done.error)
                                ELSE TradeStep(h.email, 404, "User not found")
           ELSE /\ handlers' =
                      [handlers EXCEPT ![i] =
                          [h EXCEPT !.phase = "save",
                                    !.doc = [user EXCEPT !.portfolio = done.portfolio],
                                    !.change = done.change, !.at = done.at]]
                /\ lastStep' = Step("tradeRead", h.email, 0)
    /\ sent' = <<>>
    /\ UNCHANGED <<stockPrices, userSockets, isMongoConnected, inMemoryUsers, mongoUsers,
                   session, sockets, pending, lastTick, dashboard, loginForm>>

\* what user.save() of a trade writes.  Mongoose sends the paths the handler
\* changed: $set of portfolio.cashBalance; for a pushed holding a $push, which
\* adds to the stored array and increments __v; for fields of one holding a
\* $set of portfolio.holdings.<at>.*, sent only for the __v that was read; for
\* a replaced array a $set of the array, sent only for the __v that was read,
\* which increments __v.  written = FALSE is the VersionError of an update
\* that matched no document.
SaveTrade(stored, doc, change, at) ==
    LET cash == [stored EXCEPT !.portfolio.cashBalance = doc.portfolio.cashBalance]
    IN  CASE change = "push" ->
                [written |-> TRUE,
                 user |-> [cash EXCEPT
                              !.portfolio.holdings = Append(@, doc.portfolio.holdings[at]),
                              !.version = @ + 1]]
          [] change = "element" ->
                IF stored.version # doc.version
                THEN [written |-> FALSE, user |-> stored]
                ELSE [written |-> TRUE,
                      user |-> [cash EXCEPT
                                   !.portfolio.holdings[at] = doc.portfolio.holdings[at]]]
          [] OTHER ->
                IF stored.version # doc.version
                THEN [written |-> FALSE, user |-> stored]
                ELSE [written |-> TRUE,
                      user |-> [cash EXCEPT
                                   !.portfolio.holdings = doc.portfolio.holdings,
                                   !.version = @ + 1]]

\* user.save() of a trade settles: 200 with the portfolio, or the catch
\* block's 500
TradeSave(i) ==
    /\ i \in 1..Len(handlers)
    /\ handlers[i].kind = "trade"
    /\ handlers[i].phase = "save"
    /\ LET h == handlers[i]
           saved == SaveTrade(mongoUsers[h.email], h.doc, h.change, h.at)
       IN  /\ mongoUsers' = [mongoUsers EXCEPT ![h.email] = saved.user]
           /\ lastStep' = IF saved.written THEN TradeStep(h.email, 200, "")
                           ELSE TradeStep(h.email, 500, "Trade failed")
    /\ handlers' = RemoveAt(handlers, i)
    /\ sent' = <<>>
    /\ UNCHANGED <<stockPrices, userSockets, isMongoConnected, inMemoryUsers, session,
                   sockets, pending, lastTick, dashboard, loginForm>>

\* a store call of a suspended handler rejects: the catch block answers 500
HandlerFail(i) ==
    /\ i \in 1..Len(handlers)
    /\ handlers' = RemoveAt(handlers, i)
    /\ lastStep' = [handler |-> handlers[i].kind, email |-> handlers[i].email,
                    status |-> 500, error |-> "failed"]
    /\ sent' = <<>>
    /\ UNCHANGED <<stockPrices, userSockets, isMongoConnected, inMemoryUsers, mongoUsers,
                   session, sockets, pending, lastTick, dashboard, loginForm>>

(* ------------- specification: one identity trading, with ticks --------- *)
TradeSides == {"buy", "sell", "hold"}
TradeQuantities == {Num(0), Num(1), Num(2000), StringV}

\* the identity has put all but the price of MaxShares shares into the
\* second ticker, at the price the simulator starts from
Trader ==
    LET shares == (StartPortfolio.cashBalance \div FanPriceHi) - MaxShares
    IN  [NewUser EXCEPT !.portfolio =
            [cashBalance |-> StartPortfolio.cashBalance - shares * FanPriceHi,
             holdings |-> <<[ticker |-> SUPPORTED_STOCKS[2], quantity |-> shares]>>]]

InitTrade ==
    /\ stockPrices \in InitStockPrices
    /\ \A t \in Tickers : stockPrices[t].changePercent = 0
    /\ userSockets = <<>>
    /\ isMongoConnected \in BOOLEAN
    /\ inMemoryUsers = [e \in Emails |-> IF e = EmailNames[1] THEN Trader ELSE NoUser]
    /\ mongoUsers = [e \in Emails |-> IF e = EmailNames[1] THEN Trader ELSE NoUser]
    /\ session = [c \in Clients |-> IF c = 1 THEN EmailNames[1] ELSE NoSession]
    /\ sockets = <<>>
    /\ pending = <<>>
    /\ sent = <<>>
    /\ lastTick = [t \in Tickers |-> [prev |-> stockPrices[t].price, delta |-> 0]]
    /\ lastStep = OtherStep
    /\ dashboard = [c \in Clients |-> NoPage]
    /\ loginForm = [c \in Clients |-> NoForm]
    /\ handlers = <<>>

\* the timer with the prices kept between TradePriceLo and FanPriceHi
TickTrade == Tick(FanDeltas, TradePriceLo, FanPriceHi)

NextTrade ==
    \/ TickTrade
    \/ \E t \in TradeTickers, side \in TradeSides, raw \in TradeQuantities :
          TradeRequest(1, t, side, raw)
    \/ \E i \in 1..MaxHandlers : TradeRead(i)
    \/ \E i \in 1..MaxHandlers : TradeSave(i)
    \/ \E i \in 1..MaxHandlers : HandlerFail(i)

SpecTrade == InitTrade /\ [][NextTrade]_vars

(* ------------------------------- C33 ----------------------------------- *)
\* the shares of ticker t in all entries together
RECURSIVE SharesOf(_, _)
SharesOf(holdings, t) ==
    IF holdings = <<>> THEN 0
    ELSE (IF Head(holdings).ticker = t THEN Head(holdings).quantity ELSE 0)
         + SharesOf(Tail(holdings), t)

\* an unsupported ticker, an invalid side or a quantity that is not positive
InvalidRequest(t, side, raw) ==
    \/ t \notin Tickers
    \/ side \notin {"buy", "sell"}
    \/ raw.kind # "number"
    \/ raw.v <= 0

\* a buy whose value exceeds the cash balance, or a sell of more shares than
\* held (none held included)
Uncovered(portfolio, t, side, qty, price) ==
    \/ side = "buy" /\ price * qty > portfolio.cashBalance
    \/ side = "sell" /\ qty > SharesOf(portfolio.holdings, t)

RejectedAnswer ==
    /\ lastStep'.handler = "trade"
    /\ lastStep'.status = 400
    /\ UNCHANGED <<inMemoryUsers, mongoUsers>>

\* C33: a trade request with an unsupported ticker, an invalid side, a
\* quantity that is not positive, a buy worth more than the cash balance or a
\* sell of more shares than held is answered with status 400, and every step
\* that answers a trade with 400 leaves the cash balance and the holdings of
\* every user, in both stores, as they were.
C33_RejectedTradeChangesNothing ==
    [][ /\ (lastStep'.handler = "trade" /\ lastStep'.status = 400)
              => UNCHANGED <<inMemoryUsers, mongoUsers>>
        /\ \A t \in TradeTickers, side \in TradeSides, raw \in TradeQuantities :
              (/\ TradeRequest(1, t, side, raw)
               /\ \/ InvalidRequest(t, side, raw)
                  \/ /\ ~isMongoConnected
                     /\ Uncovered(inMemoryUsers[session[1]].portfolio, t, side,
                                  raw.v, stockPrices[t].price))
              => RejectedAnswer
        /\ \A i \in 1..Len(handlers) :
              (/\ TradeRead(i)
               /\ Uncovered(mongoUsers[handlers[i].email].portfolio,
                            handlers[i].ticker, handlers[i].side, handlers[i].qty,
                            handlers[i].price))
              => RejectedAnswer
      ]_vars

\* a sell of more shares than held has just been refused to a user who
\* holds shares of the ticker and has traded before
C33_SellRefused ==
    /\ lastStep = TradeStep(EmailNames[1], 400, "Not enough shares to sell")
    /\ \E st \in {inMemoryUsers, mongoUsers} :
          /\ SharesOf(st[EmailNames[1]].portfolio.holdings, SUPPORTED_STOCKS[1]) > 0
          /\ st[EmailNames[1]].portfolio.cashBalance # Trader.portfolio.cashBalance

(* ------------------------------- C34 ----------------------------------- *)
\* C34: in every reachable state, after trades in either store mode with
\* ticks between the steps of requests that overlap, every user's cash
\* balance is at least 0 and every holding has a quantity above 0.
C34_CashAndQuantities ==
    \A st \in {inMemoryUsers, mongoUsers} : \A e \in Emails :
        /\ st[e].portfolio.cashBalance >= 0
        /\ \A i \in 1..Len(st[e].portfolio.holdings) :
              st[e].portfolio.holdings[i].quantity > 0

\* a trade has just been saved in the durable store while another request
\* of the same user is suspended, after a tick moved the prices; the cash is
\* spent, and an entry was pushed and an array replaced before
C34_SpentWhileOverlapping ==
    /\ isMongoConnected
    /\ lastStep = TradeStep(EmailNames[1], 200, "")
    /\ handlers # <<>>
    /\ stockPrices[SUPPORTED_STOCKS[1]].price = TradePriceLo
    /\ mongoUsers[EmailNames[1]].portfolio.cashBalance < TradePriceLo
    /\ mongoUsers[EmailNames[1]].version >= 2

(* ------------------------------- C35 ----------------------------------- *)
\* C35: in every reachable state, after trades in either store mode with
\* requests of the same user that overlap on the durable store, no two
\* entries of a portfolio's holdings have the same ticker.
C35_OneEntryPerTicker ==
    \A st \in {inMemoryUsers, mongoUsers} : \A e \in Emails :
        \A i, j \in 1..Len(st[e].portfolio.holdings) :
            st[e].portfolio.holdings[i].ticker = st[e].portfolio.holdings[j].ticker
                => i = j

(* =============== the account endpoints, request by request ============= *)
\* an HTTP answer as the last step: the endpoint, the identity of the
\* session, the status and the error of the body ("" when there is none)
HttpAnswer(h, e, status, error) ==
    [handler |-> h, email |-> e, status |-> status, error |-> error]

\* what a handler of these endpoints leaves alone
ServerIdle ==
    /\ sent' = <<>>
    /\ UNCHANGED <<stockPrices, userSockets, isMongoConnected, sockets, pending,
                   lastTick, dashboard, loginForm>>

\* the test of req.session.userEmail that opens the handlers
NotAuthenticated(h) ==
    /\ lastStep' = HttpAnswer(h, NoSession, 401, "Not authenticated")
    /\ UNCHANGED <<inMemoryUsers, mongoUsers, handlers, session>>

\* a handler suspended at a call of the durable store
Suspended(kind, c, e, t) ==
    [kind |-> kind, phase |-> "read", client |-> c, email |-> e, ticker |-> t,
     doc |-> NoUser]

\* what a user may ask for while the stored record is within the bounds
\* followed
AccountWithinBounds(e) ==
    /\ Len(handlers) < MaxHandlers
    /\ Len(mongoUsers[e].subscriptions) + Len(handlers) < MaxSubscriptions
    /\ mongoUsers[e].version < MaxVersion

\* POST /api/subscribe { ticker: t } that treats a request without a session
\* as one of the first identity
SubscribeRequest_NoSessionTest(c, t) ==
    LET e == IF session[c] = NoSession THEN EmailNames[1] ELSE session[c]
    IN  /\ ServerIdle
        /\ UNCHANGED session
        /\ IF t \notin Tickers
           THEN /\ lastStep' = HttpAnswer("subscribe", e, 400, "Unsupported stock ticker")
                /\ UNCHANGED <<inMemoryUsers, mongoUsers, handlers>>
           ELSE IF isMongoConnected
           THEN /\ AccountWithinBounds(e)
                /\ handlers' = Append(handlers, Suspended("subscribe", c, e, t))
                /\ lastStep' = Step("subscribeReceived", e, 0)
                /\ UNCHANGED <<inMemoryUsers, mongoUsers>>
           ELSE IF ~inMemoryUsers[e].exists
           THEN /\ lastStep' = HttpAnswer("subscribe", e, 404, "User not found")
                /\ UNCHANGED <<inMemoryUsers, mongoUsers, handlers>>
           ELSE /\ inMemoryUsers' =
                      [inMemoryUsers EXCEPT ![e].subscriptions =
                          IF SeqContains(@, t) THEN @ ELSE Append(@, t)]
                /\ lastStep' = HttpAnswer("subscribe", e, 200, "")
                /\ UNCHANGED <<mongoUsers, handlers>>

\* POST /api/subscribe { ticker: t } from client c, up to the answer or, with
\* the durable store connected, up to User.findOne
SubscribeRequest(c, t) ==
    LET e == session[c]
    IN  /\ ServerIdle
        /\ IF e = NoSession
           THEN NotAuthenticated("subscribe")
           ELSE /\ UNCHANGED session
                /\ IF t \notin Tickers
                   THEN /\ lastStep' = HttpAnswer("subscribe", e, 400,
                                                  "Unsupported stock ticker")
                        /\ UNCHANGED <<inMemoryUsers, mongoUsers, handlers>>
                   ELSE IF isMongoConnected
                   THEN /\ AccountWithinBounds(e)
                        /\ handlers' = Append(handlers, Suspended("subscribe", c, e, t))
                        /\ lastStep' = Step("subscribeReceived", e, 0)
                        /\ UNCHANGED <<inMemoryUsers, mongoUsers>>
                   ELSE IF ~inMemoryUsers[e].exists
                   THEN /\ lastStep' = HttpAnswer("subscribe", e, 404, "User not found")
                        /\ UNCHANGED <<inMemoryUsers, mongoUsers, handlers>>
                   ELSE /\ inMemoryUsers' =
                              [inMemoryUsers EXCEPT ![e].subscriptions =
                                  IF SeqContains(@, t) THEN @ ELSE Append(@, t)]
                        /\ lastStep' = HttpAnswer("subscribe", e, 200, "")
                        /\ UNCHANGED <<mongoUsers, handlers>>

\* User.findOne of a subscribe resolves: 404, or 200 at once when the ticker
\* is in the document's subscriptions, or the push and the call of save()
SubscribeRead(i) ==
    /\ i \in 1..Len(handlers)
    /\ handlers[i].kind = "subscribe"
    /\ handlers[i].phase = "read"
    /\ LET h == handlers[i]
           user == mongoUsers[h.email]
       IN  IF ~user.exists
           THEN /\ handlers' = RemoveAt(handlers, i)
                /\ lastStep' = HttpAnswer("subscribe", h.email, 404, "User not found")
           ELSE IF SeqContains(user.subscriptions, h.ticker)
           THEN /\ handlers' = RemoveAt(handlers, i)
                /\ lastStep' = HttpAnswer("subscribe", h.email, 200, "")
           ELSE /\ handlers' = [handlers EXCEPT ![i] =
                                   [h EXCEPT !.phase = "save", !.doc = user]]
                /\ lastStep' = Step("subscribeRead", h.email, 0)
    /\ ServerIdle
    /\ UNCHANGED <<inMemoryUsers, mongoUsers, session>>

\* user.save() after subscriptions.push(ticker): Mongoose sends the pushed
\* element as a $push, which appends to the stored array and increments __v
SubscribeSave(i) ==
    /\ i \in 1..Len(handlers)
    /\ handlers[i].kind = "subscribe"
    /\ handlers[i].phase = "save"
    /\ LET h == handlers[i]
       IN  /\ mongoUsers' = [mongoUsers EXCEPT
                                ![h.email].subscriptions = Append(@, h.ticker),
                                ![h.email].version = @ + 1]
           /\ lastStep' = HttpAnswer("subscribe", h.email, 200, "")
    /\ handlers' = RemoveAt(handlers, i)
    /\ ServerIdle
    /\ UNCHANGED <<inMemoryUsers, session>>

\* POST /api/unsubscribe { ticker: t } from client c, up to the answer or,
\* with the durable store connected, up to User.findOne
UnsubscribeRequest(c, t) ==
    LET e == session[c]
    IN  /\ ServerIdle
        /\ IF e = NoSession
           THEN NotAuthenticated("unsubscribe")
           ELSE /\ UNCHANGED session
                /\ IF isMongoConnected
                   THEN /\ AccountWithinBounds(e)
                        /\ handlers' = Append(handlers, Suspended("unsubscribe", c, e, t))
                        /\ lastStep' = Step("unsubscribeReceived", e, 0)
                        /\ UNCHANGED <<inMemoryUsers, mongoUsers>>
                   ELSE IF ~inMemoryUsers[e].exists
                   THEN /\ lastStep' = HttpAnswer("unsubscribe", e, 404, "User not found")
                        /\ UNCHANGED <<inMemoryUsers, mongoUsers, handlers>>
                   ELSE /\ inMemoryUsers' =
                              [inMemoryUsers EXCEPT ![e].subscriptions =
                                  FilterOutTicker(@, t)]
                        /\ lastStep' = HttpAnswer("unsubscribe", e, 200, "")
                        /\ UNCHANGED <<mongoUsers, handlers>>

\* User.findOne of an unsubscribe resolves: 404, or the filtered array is
\* assigned and save() called
UnsubscribeRead(i) ==
    /\ i \in 1..Len(handlers)
    /\ handlers[i].kind = "unsubscribe"
    /\ handlers[i].phase = "read"
    /\ LET h == handlers[i]
           user == mongoUsers[h.email]
       IN  IF ~user.exists
           THEN /\ handlers' = RemoveAt(handlers, i)
                /\ lastStep' = HttpAnswer("unsubscribe", h.email, 404, "User not found")
           ELSE /\ handlers' = [handlers EXCEPT ![i] =
                                   [h EXCEPT !.phase = "save", !.doc = user]]
                /\ lastStep' = Step("unsubscribeRead", h.email, 0)
    /\ ServerIdle
    /\ UNCHANGED <<inMemoryUsers, mongoUsers, session>>

\* user.save() after the assignment of the filtered array: nothing is sent
\* when the array equals the one read; otherwise Mongoose sends a $set of the
\* array for the __v that was read and increments __v, and an update that
\* matches no document is a VersionError, answered by the catch block
UnsubscribeSave(i) ==
    /\ i \in 1..Len(handlers)
    /\ handlers[i].kind = "unsubscribe"
    /\ handlers[i].phase = "save"
    /\ LET h == handlers[i]
           filtered == FilterOutTicker(h.doc.subscriptions, h.ticker)
           stored == mongoUsers[h.email]
       IN  IF filtered = h.doc.subscriptions
           THEN /\ UNCHANGED mongoUsers
                /\ lastStep' = HttpAnswer("unsubscribe", h.email, 200, "")
           ELSE IF stored.version # h.doc.version
           THEN /\ UNCHANGED mongoUsers
                /\ lastStep' = HttpAnswer("unsubscribe", h.email, 500,
                                          "Unsubscription failed")
           ELSE /\ mongoUsers' = [mongoUsers EXCEPT
                                     ![h.email].subscriptions = filtered,
                                     ![h.email].version = @ + 1]
                /\ lastStep' = HttpAnswer("unsubscribe", h.email, 200, "")
    /\ handlers' = RemoveAt(handlers, i)
    /\ ServerIdle
    /\ UNCHANGED <<inMemoryUsers, session>>

\* the answer of a login, as the last step: created tells whether the
\* handler made the record
LoginAnswer(e, status, created) ==
    [handler |-> "login", email |-> e, status |-> status, created |-> created]

\* POST /api/login with a valid, normalised email e, up to the timer of
\* 100 ms that precedes the access to the store
LoginRequest(c, e) ==
    /\ Len(handlers) < MaxHandlers
    /\ handlers' = Append(handlers, Suspended("login", c, e, ""))
    /\ lastStep' = Step("loginReceived", e, 0)
    /\ ServerIdle
    /\ UNCHANGED <<inMemoryUsers, mongoUsers, session>>

\* after the timer.  In memory: has / set / get and the answer in one run.
\* Durable store: User.findOne resolves, and the handler answers when there
\* is a record and calls save() of a new one when there is none
LoginRead(i) ==
    /\ i \in 1..Len(handlers)
    /\ handlers[i].kind = "login"
    /\ handlers[i].phase = "read"
    /\ LET h == handlers[i]
           found == ActiveUsers[h.email].exists
       IN  IF isMongoConnected /\ ~found
           THEN /\ handlers' = [handlers EXCEPT ![i] = [h EXCEPT !.phase = "save"]]
                /\ lastStep' = Step("loginRead", h.email, 0)
                /\ UNCHANGED <<inMemoryUsers, mongoUsers, session>>
           ELSE /\ handlers' = RemoveAt(handlers, i)
                /\ inMemoryUsers' = IF found THEN inMemoryUsers
                                    ELSE [inMemoryUsers EXCEPT ![h.email] = NewUser]
                /\ session' = [session EXCEPT ![h.client] = h.email]
                /\ lastStep' = LoginAnswer(h.email, 200, ~found)
                /\ UNCHANGED mongoUsers
    /\ ServerIdle

\* save() of the new record with no unique index on email
LoginSave_NoUniqueIndex(i) ==
    /\ i \in 1..Len(handlers)
    /\ handlers[i].kind = "login"
    /\ handlers[i].phase = "save"
    /\ LET h == handlers[i]
       IN  /\ mongoUsers' = [mongoUsers EXCEPT ![h.email] = NewUser]
           /\ session' = [session EXCEPT ![h.client] = h.email]
           /\ lastStep' = LoginAnswer(h.email, 200, TRUE)
    /\ handlers' = RemoveAt(handlers, i)
    /\ ServerIdle
    /\ UNCHANGED inMemoryUsers

\* save() of the new record settles.  email is unique in the schema: the
\* insert of a second record with the email is refused by the store (a
\* MongoServerError, answered 503 by the catch block, the session untouched)
LoginSave(i) ==
    /\ i \in 1..Len(handlers)
    /\ handlers[i].kind = "login"
    /\ handlers[i].phase = "save"
    /\ LET h == handlers[i]
       IN  IF mongoUsers[h.email].exists
           THEN /\ lastStep' = LoginAnswer(h.email, 503, FALSE)
                /\ UNCHANGED <<mongoUsers, session>>
           ELSE /\ mongoUsers' = [mongoUsers EXCEPT ![h.email] = NewUser]
                /\ session' = [session EXCEPT ![h.client] = h.email]
                /\ lastStep' = LoginAnswer(h.email, 200, TRUE)
    /\ handlers' = RemoveAt(handlers, i)
    /\ ServerIdle
    /\ UNCHANGED inMemoryUsers

\* GET /api/portfolio and GET /api/alerts: 401, 404 or the stored value;
\* the store is only read
ReadRequest(h, c) ==
    /\ ServerIdle
    /\ IF session[c] = NoSession
       THEN NotAuthenticated(h)
       ELSE /\ lastStep' = IF ActiveUsers[session[c]].exists
                           THEN HttpAnswer(h, session[c], 200, "")
                           ELSE HttpAnswer(h, session[c], 404, "User not found")
            /\ UNCHANGED <<inMemoryUsers, mongoUsers, handlers, session>>

PortfolioRequest(c) == ReadRequest("portfolio", c)
AlertsRequest(c) == ReadRequest("alerts", c)

\* POST /api/alerts { ticker: t, above, below }: 401 without a session
SetAlertRequest(c, t, above, below) ==
    \/ /\ session[c] = NoSession
       /\ ServerIdle
       /\ NotAuthenticated("alerts")
    \/ SetAlert(c, t, above, below)

(* ------- specification: two clients and one identity's account --------- *)
AccountTickers == Tickers \cup {"XXXX"}

InitAccount ==
    /\ stockPrices \in InitStockPrices
    /\ \A t \in Tickers : stockPrices[t].changePercent = 0
    /\ userSockets = <<>>
    /\ isMongoConnected \in BOOLEAN
    /\ inMemoryUsers = [e \in Emails |-> NoUser]
    /\ mongoUsers = [e \in Emails |-> NoUser]
    /\ session = [c \in Clients |-> NoSession]
    /\ sockets = <<>>
    /\ pending = <<>>
    /\ sent = <<>>
    /\ lastTick = [t \in Tickers |-> [prev |-> stockPrices[t].price, delta |-> 0]]
    /\ lastStep = OtherStep
    /\ dashboard = [c \in Clients |-> NoPage]
    /\ loginForm = [c \in Clients |-> NoForm]
    /\ handlers = <<>>

NextAccount ==
    \/ \E c \in Clients : LoginRequest(c, EmailNames[1])
    \/ \E i \in 1..MaxHandlers : LoginRead(i)
    \/ \E i \in 1..MaxHandlers : LoginSave(i)
    \/ \E c \in Clients : Logout(c)
    \/ \E c \in Clients, t \in AccountTickers : SubscribeRequest(c, t)
    \/ \E i \in 1..MaxHandlers : SubscribeRead(i)
    \/ \E i \in 1..MaxHandlers : SubscribeSave(i)
    \/ \E c \in Clients, t \in AccountTickers : UnsubscribeRequest(c, t)
    \/ \E i \in 1..MaxHandlers : UnsubscribeRead(i)
    \/ \E i \in 1..MaxHandlers : UnsubscribeSave(i)
    \/ \E c \in Clients : PortfolioRequest(c)
    \/ \E c \in Clients : AlertsRequest(c)
    \/ \E c \in Clients : SetAlertRequest(c, SUPPORTED_STOCKS[1], Num(SimPriceHi), UndefinedV)
    \/ \E c \in Clients, t \in TradeTickers : TradeRequest(c, t, "sell", Num(1))
    \/ \E i \in 1..MaxHandlers : TradeRead(i)
    \/ \E i \in 1..MaxHandlers : HandlerFail(i)

SpecAccount == InitAccount /\ [][NextAccount]_vars

(* ------------------------------- C36 ----------------------------------- *)
\* only supported tickers, none twice
SupportedOnce(subs) ==
    /\ \A i \in 1..Len(subs) : subs[i] \in Tickers
    /\ \A i, j \in 1..Len(subs) : subs[i] = subs[j] => i = j

SubscriptionsAreSets ==
    \A st \in {inMemoryUsers, mongoUsers} : \A e \in Emails :
        SupportedOnce(st[e].subscriptions)

\* a subscribe that finds the ticker in the list it reads, or that names an
\* unsupported ticker, changes no list, and the latter is answered 400
SubscribeLeavesList ==
    /\ \A c \in Clients, t \in AccountTickers :
          (/\ SubscribeRequest(c, t)
           /\ session[c] # NoSession
           /\ \/ t \notin Tickers
              \/ ~isMongoConnected /\ SeqContains(inMemoryUsers[session[c]].subscriptions, t))
          => /\ UNCHANGED <<inMemoryUsers, mongoUsers, handlers>>
             /\ lastStep' = HttpAnswer("subscribe", session[c],
                                       IF t \in Tickers THEN 200 ELSE 400,
                                       IF t \in Tickers THEN ""
                                       ELSE "Unsupported stock ticker")
    /\ \A i \in 1..Len(handlers) :
          (/\ SubscribeRead(i)
           /\ SeqContains(mongoUsers[handlers[i].email].subscriptions, handlers[i].ticker))
          => /\ UNCHANGED <<inMemoryUsers, mongoUsers>>
             /\ lastStep' = HttpAnswer("subscribe", handlers[i].email, 200, "")

\* C36: in every reachable state, after subscribe and unsubscribe requests
\* in either store mode with requests of the same user that overlap, every
\* user's subscriptions hold only supported tickers and no ticker twice; and
\* a subscribe of a ticker already in the list, or of an unsupported ticker
\* (answered with an error), leaves every list as it was.
C36_SubscriptionsStaySets ==
    /\ []SubscriptionsAreSets
    /\ [][SubscribeLeavesList]_vars

(* ------------------------------- C37 ----------------------------------- *)
RefusedUnchanged(h) ==
    /\ lastStep' = HttpAnswer(h, NoSession, 401, "Not authenticated")
    /\ UNCHANGED <<inMemoryUsers, mongoUsers, handlers, session>>

\* C37: a request to the portfolio, trade, alerts (GET and POST), subscribe
\* or unsubscribe endpoint from a client whose session holds no identity is
\* answered 401 at once and changes no user record in either store, and
\* suspends no handler that could change one later.
C37_NoSessionNoChange ==
    [][\A c \in Clients :
          session[c] = NoSession =>
              /\ PortfolioRequest(c) => RefusedUnchanged("portfolio")
              /\ AlertsRequest(c) => RefusedUnchanged("alerts")
              /\ SetAlertRequest(c, SUPPORTED_STOCKS[1], Num(SimPriceHi), UndefinedV)
                    => RefusedUnchanged("alerts")
              /\ \A t \in TradeTickers :
                    TradeRequest(c, t, "sell", Num(1)) => RefusedUnchanged("trade")
              /\ \A t \in AccountTickers :
                    /\ SubscribeRequest(c, t) => RefusedUnchanged("subscribe")
                    /\ UnsubscribeRequest(c, t) => RefusedUnchanged("unsubscribe")
      ]_vars

\* a subscribe has just been refused when no client has a session and the
\* identity's record, made by a login, holds a subscription: the request
\* came after a logout
C37_RefusedAfterLogout ==
    /\ lastStep = HttpAnswer("subscribe", NoSession, 401, "Not authenticated")
    /\ \A c \in Clients : session[c] = NoSession
    /\ ActiveUsers[EmailNames[1]].exists
    /\ ActiveUsers[EmailNames[1]].subscriptions # <<>>

(* ------------------------------- C38 ----------------------------------- *)
\* a record as a login makes it: no subscriptions, no thresholds, no
\* holdings and a cash balance of 100000 (in cents)
FreshRecord(user) ==
    /\ user.exists
    /\ user.subscriptions = <<>>
    /\ user.thresholds = <<>>
    /\ user.portfolio.holdings = <<>>
    /\ user.portfolio.cashBalance = 100000 * 100

\* C38: a step of a login handler whose email has a record in the store in
\* use leaves every record of both stores as it was and creates nothing; a
\* step of a login handler whose email has none leaves every other record as
\* it was and either creates nothing yet or creates the one record of that
\* email, fresh, and answers 200; so of two logins of a new email that
\* overlap only one creates the record.
C38_LoginFindsOrCreates ==
    [][\A i \in 1..Len(handlers) :
          (LoginRead(i) \/ LoginSave(i)) =>
              LET e == handlers[i].email
              IN  IF ActiveUsers[e].exists
                  THEN /\ UNCHANGED <<inMemoryUsers, mongoUsers>>
                       /\ lastStep'.handler = "login"
                       /\ ~lastStep'.created
                  ELSE /\ \A o \in Emails \ {e} :
                             /\ (inMemoryUsers')[o] = inMemoryUsers[o]
                             /\ (mongoUsers')[o] = mongoUsers[o]
                       /\ IF isMongoConnected
                          THEN UNCHANGED inMemoryUsers
                          ELSE UNCHANGED mongoUsers
                       /\ \/ /\ UNCHANGED <<inMemoryUsers, mongoUsers>>
                             /\ lastStep' = Step("loginRead", e, 0)
                          \/ /\ FreshRecord((ActiveUsers')[e])
                             /\ lastStep' = LoginAnswer(e, 200, TRUE)
      ]_vars

\* the second of two overlapping logins of a new email has just been
\* refused by the store, after the record made by the first got a
\* subscription
C38_SecondInsertRefused ==
    /\ lastStep = LoginAnswer(EmailNames[1], 503, FALSE)
    /\ mongoUsers[EmailNames[1]].subscriptions # <<>>

(* ------------------------------- C39 ----------------------------------- *)
\* exactly one stockUpdate was emitted, to channel s, holding for each
\* ticker of subs, and for no other, the price record of now
OnePushOf(s, subs) ==
    /\ Len(sent) = 1
    /\ sent[1].event = "stockUpdate"
    /\ sent[1].to = s
    /\ {sent[1].payload[k].ticker : k \in 1..Len(sent[1].payload)}
          = {subs[k] : k \in 1..Len(subs)}
    /\ \A k, l \in 1..Len(sent[1].payload) :
          sent[1].payload[k].ticker = sent[1].payload[l].ticker => k = l
    /\ \A k \in 1..Len(sent[1].payload) :
          sent[1].payload[k].info = stockPrices[sent[1].payload[k].ticker]

\* the register handler up to its store access: the registry maps the
\* identity to the channel; in memory the push is emitted in the same run;
\* with the durable store the read is in flight and nothing was emitted
RegisterHandled ==
    lastStep.handler = "register" =>
        LET e == lastStep.email
            s == lastStep.socketId
        IN  /\ HasKey(userSockets, e)
            /\ MapGet(userSockets, e) = s
            /\ IF isMongoConnected
               THEN /\ sent = <<>>
                    /\ \E i \in 1..Len(pending) :
                          pending[i] = [kind |-> "register", email |-> e, socketId |-> s]
               ELSE Len(inMemoryUsers[e].subscriptions) > 0
                       => OnePushOf(s, inMemoryUsers[e].subscriptions)

\* the read of a register resolves: the push, with the prices of that moment
RegisterReadPushes ==
    lastStep.handler = "registerRead" =>
        (Len(mongoUsers[lastStep.email].subscriptions) > 0
            => OnePushOf(lastStep.socketId, mongoUsers[lastStep.email].subscriptions))

\* C39 as stated: whenever the register handler of an identity with
\* non-empty subscriptions is done, in one run or at the end of its store
\* read, however that read ends, the channel was sent one stockUpdate with
\* the current prices of exactly the subscribed tickers, and the registry was
\* set before the store was read.
C39_RegisterPushesAtOnce ==
    /\ RegisterHandled
    /\ RegisterReadPushes
    /\ lastStep.handler = "registerReadFailed" =>
          (Len(mongoUsers[lastStep.email].subscriptions) > 0
              => OnePushOf(lastStep.socketId, mongoUsers[lastStep.email].subscriptions))

\* C39, amended: the registry maps the identity to the channel before the
\* store is read, and when the handler holds the identity's record (at once
\* in memory, when its read resolves with the durable store) and that record
\* has subscriptions, the channel is sent one stockUpdate with the current
\* prices of exactly those tickers, with no tick in between.
C39_RegisterPushesWhenRead ==
    /\ RegisterHandled
    /\ RegisterReadPushes

\* the read of a register has just resolved after a tick moved the prices,
\* and the channel was sent the price of the one ticker subscribed
C39_PushedAfterRead ==
    /\ lastStep.handler = "registerRead"
    /\ Len(sent) = 1
    /\ Len(sent[1].payload) = 1
    /\ sent[1].payload[1].info.change # 0

====
